---- MODULE Spec2Model ----
(***************************************************************************)
(* A model of the CourtListener MCP server: the tool operations (build     *)
(* query, primary request, best-effort enrichment requests, formatting,    *)
(* error handlers), the query builders and the code-to-label translators.  *)
(*                                                                         *)
(* A returned text is a sequence of pieces: the literal parts of the       *)
(* source's f-string and the values substituted into it, in order.  The    *)
(* emoji that start some messages are left out of the pieces.              *)
(***************************************************************************)
EXTENDS Integers, Sequences, FiniteSets, TLC

\* ------------------------------------------------------------------ bounds
\* Records a list query returns for analysis (the code analyses every one).
MaxRecords == 1
\* Linked URLs followed per record from a list field (sub_opinions, clusters,
\* appeals_to); the code's own caps (10, 5) are above it.
MaxSub == 1

\* ------------------------------------------------------- upstream answers
\* What one upstream request can end in: an HTTP status, a network failure
\* (httpx raises at the await), or a 200 whose body .json() cannot decode.
HttpStatuses == {"200", "404", "401", "429", "500"}
Outcomes == HttpStatuses \cup {"timeout", "malformed"}

IsException(o) == o \in {"timeout", "malformed"}
ExceptionClass(o) == IF o = "timeout" THEN "ReadTimeout" ELSE "JSONDecodeError"

\* ------------------------------------------------------ enrichment plans
\* One follow-up request of an analyzer, in program order.
\*   kind : the endpoint fetched
\*   dep  : the step whose 200 body carries this step's URL or id (0: the
\*          primary record)
\*   exc  : the step the code continues at when this step raises (the end
\*          of the innermost enclosing try block)
\*   key  : the analysis key the step fills on a 200 with a decodable body
\*   onexc: what the except block does to the analysis: "keep" it, "drop"
\*          the key (the function returns None), or store the "court_id"
Step(kind, dep, exc, key, onexc) ==
    [kind |-> kind, dep |-> dep, exc |-> exc, key |-> key, onexc |-> onexc]

NoPlan == << >>

analyze_opinion_thoroughly ==
    << Step("clusters", 0, 3, "case_context", "keep"),
       Step("dockets", 1, 3, "docket_info", "keep") >>

analyze_cluster_thoroughly_enhanced ==
    [i \in 1..MaxSub |-> Step("opinions", 0, i + 1, "opinions", "keep")]
    \o << Step("dockets", 0, MaxSub + 3, "docket_info", "keep"),
          Step("courts", MaxSub + 1, MaxSub + 3, "court_name", "keep") >>

build_enhanced_docket_summary ==
    << Step("courts", 0, 2, "court_name", "court_id") >>
    \o [i \in 1..MaxSub |-> Step("clusters", 0, i + 2, "clusters", "keep")]

\* _fetch_court_hierarchy (parent, then each appeals_to court in its own
\* try) followed by _fetch_court_statistics (three counts in one try, whose
\* except returns None: no statistics at all; without an exception the
\* statistics are returned whatever the three statuses were, see
\* get_court.base).
analyze_court_thoroughly ==
    << Step("courts", 0, MaxSub + 2, "hierarchy", "keep") >>
    \o [i \in 1..MaxSub |-> Step("courts", 0, i + 2, "hierarchy", "keep")]
    \o << Step("dockets", 0, MaxSub + 5, "activity_statistics", "drop"),
          Step("clusters", 0, MaxSub + 5, "activity_statistics", "drop"),
          Step("dockets", 0, MaxSub + 5, "activity_statistics", "drop") >>

analyze_person_thoroughly ==
    << Step("positions", 0, 2, "positions", "keep") >>

analyze_position_thoroughly ==
    << Step("people", 0, 2, "person_details", "keep"),
       Step("courts", 0, 3, "court_details", "keep"),
       Step("people", 0, 4, "appointer_details", "keep") >>

analyze_education_thoroughly ==
    << Step("people", 0, 2, "person_details", "keep") >>

analyze_political_affiliation_thoroughly ==
    << Step("people", 0, 2, "person_details", "keep") >>

analyze_aba_rating_thoroughly ==
    << Step("people", 0, 2, "person_details", "keep") >>

analyze_retention_event_thoroughly ==
    << Step("positions", 0, 2, "position_details", "keep") >>

analyze_source_thoroughly ==
    << Step("people", 0, 2, "person_details", "keep") >>

\* The opinion, then its cluster for the case name.  Without a 200 opinion
\* the function returns {'id': ..., 'case_name': 'Unknown Case'}, which is
\* the value the analysis starts from (FallbackDetails below).
fetch_opinion_details ==
    << Step("opinions", 0, 3, "opinion_details", "keep"),
       Step("clusters", 1, 3, "cluster_info", "keep") >>

\* analyze_citation_relationship: fetch_opinion_details of the other opinion.
analyze_citation_relationship == fetch_opinion_details

\* ----------------------------------------------------- argument values
\* A value of an argument or of a query parameter: kind says what it is, s
\* and n carry a string and a number where the kind has one.
\*   "none"  : None                      "v" : a truthy value of the argument
\*   "f"     : a value that is not None but falsy (0, "", False)
\*   "int"   : the integer n
\*   "order" : an ordering: the field s after n leading "-" characters
\*             (order_by.lstrip('-') is s)
None == [kind |-> "none", s |-> "", n |-> 0]
Given(k) == [kind |-> k, s |-> "", n |-> 0]
Number(i) == [kind |-> "int", s |-> "", n |-> i]
Order(dashes, field) == [kind |-> "order", s |-> field, n |-> dashes]

\* ------------------------------------------------------ tool descriptors
\* One record per registered tool, read off the tool function:
\*   mode     : "id_or_list" (GET /x/{id}/ when the id argument is truthy,
\*              GET /x/ with filters otherwise), "list", "post",
\*              "delegate" (returns another tool's result) or "network"
\*   max      : the upper clamp of page_size (0: the tool sends none itself)
\*   idarg    : the argument that selects the lookup by id
\*   limit    : the default of the limit argument
\*   valid_orders : the fields order_by may name ({}: order_by is not checked
\*              or not taken)
\*   ordering : the ordering sent when order_by is not given or not valid
\*   e404/e401/e429 : the text of that branch of the HTTPStatusError
\*              handler, << >> when the handler has no such branch
\*   ehttp    : the literal before "HTTP <code>" in the handler's else branch
\*   etail    : what the else branch appends after the code
\*   eany     : the literal that starts the text of the except Exception
\*              handler, before str(e)
\*   eclass   : whether that text goes on with type(e).__name__
\*   eend     : the literal that ends that text
\*   empty    : the text returned for an empty result list
\*   prelude  : the plan run once per call, plan: the plan run per record
\*   base     : the analysis record before any enrichment
\*   layout   : the keys the formatter prints, in order, each with its label
AuthText == << "Authentication failed", ". Please check your CourtListener API token." >>
Line(key, label) == [key |-> key, label |-> label]
Primary == [id |-> "primary"]
FallbackDetails == [id |-> "primary", opinion_details |-> "fallback"]

get_opinion ==
    [name |-> "get_opinion", mode |-> "id_or_list", endpoint |-> "opinions", max |-> 20,
     idarg |-> "opinion_id", limit |-> 10,
     valid_orders |-> {}, ordering |-> Order(1, "cluster__date_filed"),
     e404 |-> << "Opinion ", "not found", ". Please check the opinion ID or search criteria." >>,
     e401 |-> AuthText, e429 |-> << >>,
     ehttp |-> "Error fetching opinion: ", etail |-> << >>,
     eany |-> "Error fetching opinion: ", eclass |-> TRUE, eend |-> << >>,
     empty |-> << "No opinions found matching the specified criteria." >>,
     prelude |-> NoPlan, plan |-> analyze_opinion_thoroughly, base |-> Primary,
     layout |-> << Line("id", "Opinion ID: "), Line("case_context", "CASE CONTEXT: "),
                   Line("docket_info", "Docket: ") >>]

get_cluster ==
    [name |-> "get_cluster", mode |-> "id_or_list", endpoint |-> "clusters", max |-> 50,
     idarg |-> "cluster_id", limit |-> 10,
     valid_orders |-> {}, ordering |-> Order(1, "date_filed"),
     e404 |-> << "Cluster ", "not found", ". Please check the cluster ID or search criteria." >>,
     e401 |-> AuthText, e429 |-> << >>,
     ehttp |-> "Error fetching cluster: ", etail |-> << >>,
     eany |-> "Error fetching cluster: ", eclass |-> TRUE, eend |-> << >>,
     empty |-> << "No clusters found matching the specified criteria." >>,
     prelude |-> NoPlan, plan |-> analyze_cluster_thoroughly_enhanced, base |-> Primary,
     layout |-> << Line("id", "Cluster ID: "), Line("opinions", "OPINIONS IN CLUSTER: "),
                   Line("docket_info", "DOCKET INFORMATION: "), Line("court_name", "Court: ") >>]

\* court_info.court_name starts as "Loading..." (line 208) and the formatter
\* prints it in the header of every case (formatters.py line 134).
get_docket ==
    [name |-> "get_docket", mode |-> "id_or_list", endpoint |-> "dockets", max |-> 50,
     idarg |-> "docket_id", limit |-> 10,
     valid_orders |-> {}, ordering |-> Order(1, "date_filed"),
     e404 |-> << "Docket ", "not found", ". Please check the docket ID (", "docket_id",
                 ") or search criteria." >>,
     e401 |-> AuthText, e429 |-> << >>,
     ehttp |-> "Error fetching docket: ", etail |-> << " - ", "response.text[:200]" >>,
     eany |-> "Error fetching docket: ", eclass |-> TRUE,
     eend |-> << " - Check logs for more information." >>,
     empty |-> << "No dockets found matching the specified criteria." >>,
     prelude |-> NoPlan, plan |-> build_enhanced_docket_summary,
     base |-> [id |-> "primary", court_name |-> "Loading..."],
     layout |-> << Line("id", "Docket ID: "), Line("court_name", "Court: "),
                   Line("clusters", "RELATED OPINIONS: ") >>]

get_court ==
    [name |-> "get_court", mode |-> "id_or_list", endpoint |-> "courts", max |-> 100,
     idarg |-> "court_id", limit |-> 20,
     valid_orders |-> {}, ordering |-> Order(0, "position"),
     e404 |-> << "Court ", "not found", ". Please check the court ID or search criteria." >>,
     e401 |-> AuthText, e429 |-> << >>,
     ehttp |-> "Error fetching court: ", etail |-> << >>,
     eany |-> "Error fetching court: ", eclass |-> TRUE, eend |-> << >>,
     empty |-> << "No courts found matching the specified criteria." >>,
     prelude |-> NoPlan, plan |-> analyze_court_thoroughly,
     base |-> [id |-> "primary", activity_statistics |-> "counts"],
     layout |-> << Line("id", "Court ID: "), Line("hierarchy", "COURT HIERARCHY: "),
                   Line("activity_statistics", "ACTIVITY STATISTICS: ") >>]

get_judge ==
    [name |-> "get_judge", mode |-> "id_or_list", endpoint |-> "people", max |-> 50,
     idarg |-> "person_id", limit |-> 10,
     valid_orders |-> {}, ordering |-> Order(0, "name_last,name_first"),
     e404 |-> << "Person ", "not found", ". Please check the person ID or search criteria." >>,
     e401 |-> AuthText, e429 |-> << >>,
     ehttp |-> "Error fetching person: ", etail |-> << >>,
     eany |-> "Error fetching person: ", eclass |-> TRUE, eend |-> << >>,
     empty |-> << "No people found matching the specified criteria." >>,
     prelude |-> NoPlan, plan |-> analyze_person_thoroughly, base |-> Primary,
     layout |-> << Line("id", "Person ID: "), Line("positions", "POSITIONS HELD: ") >>]

get_positions ==
    [name |-> "get_positions", mode |-> "id_or_list", endpoint |-> "positions", max |-> 100,
     idarg |-> "position_id", limit |-> 20,
     valid_orders |-> {"id", "date_start", "date_nominated", "date_confirmation",
                      "date_termination"},
     ordering |-> Order(1, "date_start"),
     e404 |-> << "Position ", "not found", ". Please check the position ID or search criteria." >>,
     e401 |-> AuthText, e429 |-> << >>,
     ehttp |-> "Error fetching position: ", etail |-> << >>,
     eany |-> "Error fetching position: ", eclass |-> TRUE, eend |-> << >>,
     empty |-> << "No positions found matching the specified criteria." >>,
     prelude |-> NoPlan, plan |-> analyze_position_thoroughly, base |-> Primary,
     layout |-> << Line("id", "Position ID: "), Line("person_details", "Person: "),
                   Line("court_details", "Court: "), Line("appointer_details", "Appointed by: ") >>]

get_educations ==
    [name |-> "get_educations", mode |-> "id_or_list", endpoint |-> "educations", max |-> 100,
     idarg |-> "education_id", limit |-> 20,
     valid_orders |-> {"id", "date_created", "date_modified"}, ordering |-> Order(1, "date_created"),
     e404 |-> << "Education record ", "not found",
                 ". Please check the education ID or search criteria." >>,
     e401 |-> AuthText, e429 |-> << >>,
     ehttp |-> "Error fetching education: ", etail |-> << >>,
     eany |-> "Error fetching education: ", eclass |-> TRUE, eend |-> << >>,
     empty |-> << "No education records found matching the specified criteria." >>,
     prelude |-> NoPlan, plan |-> analyze_education_thoroughly, base |-> Primary,
     layout |-> << Line("id", "Education ID: "), Line("person_details", "PERSON: ") >>]

get_political_affiliations ==
    [name |-> "get_political_affiliations", mode |-> "id_or_list",
     endpoint |-> "political-affiliations", max |-> 100,
     idarg |-> "affiliation_id", limit |-> 20,
     valid_orders |-> {"id", "date_created", "date_modified", "date_start", "date_end"}, ordering |-> Order(1, "date_start"),
     e404 |-> << "Political affiliation ", "not found",
                 ". Please check the affiliation ID or search criteria." >>,
     e401 |-> AuthText, e429 |-> << >>,
     ehttp |-> "Error fetching political affiliation: ", etail |-> << >>,
     eany |-> "Error fetching political affiliation: ", eclass |-> TRUE, eend |-> << >>,
     empty |-> << "No political affiliations found matching the specified criteria." >>,
     prelude |-> NoPlan, plan |-> analyze_political_affiliation_thoroughly, base |-> Primary,
     layout |-> << Line("id", "Affiliation ID: "), Line("person_details", "PERSON: ") >>]

get_aba_ratings ==
    [name |-> "get_aba_ratings", mode |-> "id_or_list", endpoint |-> "aba-ratings", max |-> 100,
     idarg |-> "rating_id", limit |-> 20,
     valid_orders |-> {"id", "date_created", "date_modified", "year_rated"}, ordering |-> Order(1, "year_rated"),
     e404 |-> << "ABA rating ", "not found", ". Please check the rating ID or search criteria." >>,
     e401 |-> AuthText, e429 |-> << >>,
     ehttp |-> "Error fetching ABA rating: ", etail |-> << >>,
     eany |-> "Error fetching ABA rating: ", eclass |-> TRUE, eend |-> << >>,
     empty |-> << "No ABA ratings found matching the specified criteria." >>,
     prelude |-> NoPlan, plan |-> analyze_aba_rating_thoroughly, base |-> Primary,
     layout |-> << Line("id", "Rating ID: "), Line("person_details", "PERSON: ") >>]

get_retention_events ==
    [name |-> "get_retention_events", mode |-> "id_or_list",
     endpoint |-> "retention-events", max |-> 100,
     idarg |-> "event_id", limit |-> 20,
     valid_orders |-> {"id", "date_created", "date_modified", "date_retention"}, ordering |-> Order(1, "date_retention"),
     e404 |-> << "Retention event ", "not found",
                 ". Please check the event ID or search criteria." >>,
     e401 |-> AuthText, e429 |-> << >>,
     ehttp |-> "Error fetching retention event: ", etail |-> << >>,
     eany |-> "Error fetching retention event: ", eclass |-> TRUE, eend |-> << >>,
     empty |-> << "No retention events found matching the specified criteria." >>,
     prelude |-> NoPlan, plan |-> analyze_retention_event_thoroughly, base |-> Primary,
     layout |-> << Line("id", "Event ID: "), Line("position_details", "POSITION: ") >>]

get_sources ==
    [name |-> "get_sources", mode |-> "id_or_list", endpoint |-> "sources", max |-> 100,
     idarg |-> "source_id", limit |-> 20,
     valid_orders |-> {"id", "date_modified", "date_accessed"}, ordering |-> Order(1, "date_modified"),
     e404 |-> << "Source ", "not found", ". Please check the source ID or search criteria." >>,
     e401 |-> AuthText, e429 |-> << >>,
     ehttp |-> "Error fetching source: ", etail |-> << >>,
     eany |-> "Error fetching source: ", eclass |-> TRUE, eend |-> << >>,
     empty |-> << "No sources found matching the specified criteria." >>,
     prelude |-> NoPlan, plan |-> analyze_source_thoroughly, base |-> Primary,
     layout |-> << Line("id", "Source ID: "), Line("person_details", "PERSON: ") >>]

\* The handler has a 401 branch and an else branch only (lines 132-137).
search_legal_cases ==
    [name |-> "search_legal_cases", mode |-> "list", endpoint |-> "search", max |-> 100,
     idarg |-> "", limit |-> 20,
     valid_orders |-> {}, ordering |-> None,
     e404 |-> << >>, e401 |-> AuthText, e429 |-> << >>,
     ehttp |-> "Search error: ", etail |-> << >>,
     eany |-> "Search error: ", eclass |-> TRUE, eend |-> << >>,
     empty |-> << "No results found for query: ", "query" >>,
     prelude |-> NoPlan, plan |-> NoPlan, base |-> Primary,
     layout |-> << Line("id", "Cluster ID: ") >>]

\* Builds the enhanced query and returns search_legal_cases(...); its own
\* handler is a bare except Exception (lines 207-209).
advanced_legal_search ==
    [name |-> "advanced_legal_search", mode |-> "delegate", endpoint |-> "search", max |-> 0,
     idarg |-> "", limit |-> 20,
     valid_orders |-> {}, ordering |-> None,
     e404 |-> << >>, e401 |-> << >>, e429 |-> << >>,
     ehttp |-> "", etail |-> << >>,
     eany |-> "Advanced search error: ", eclass |-> FALSE, eend |-> << >>,
     empty |-> << >>,
     prelude |-> NoPlan, plan |-> NoPlan, base |-> Primary, layout |-> << >>]

\* POST /citation-lookup/; the handler has a 429 branch, a 401 branch and an
\* else branch (lines 93-105).
verify_citations ==
    [name |-> "verify_citations", mode |-> "post", endpoint |-> "citation-lookup", max |-> 0,
     idarg |-> "", limit |-> 0,
     valid_orders |-> {}, ordering |-> None,
     e404 |-> << >>,
     e401 |-> AuthText,
     e429 |-> << "Rate limit", " exceeded: 60 citations per minute", "Wait until: ", "wait_until" >>,
     ehttp |-> "Citation lookup error: ", etail |-> << >>,
     eany |-> "Citation lookup error: ", eclass |-> FALSE, eend |-> << >>,
     empty |-> << "No citations found in the provided text." >>,
     prelude |-> NoPlan, plan |-> NoPlan, base |-> Primary,
     layout |-> << Line("id", "CITATION VERIFICATION RESULTS") >>]

find_authorities_cited ==
    [name |-> "find_authorities_cited", mode |-> "list", endpoint |-> "opinions-cited", max |-> 200,
     idarg |-> "", limit |-> 50,
     valid_orders |-> {"id", "depth"}, ordering |-> Order(1, "depth"),
     e404 |-> << "Opinion ", "opinion_id", " ", "not found", "." >>,
     e401 |-> AuthText, e429 |-> << >>,
     ehttp |-> "Error analyzing authorities: ", etail |-> << >>,
     eany |-> "Error analyzing authorities: ", eclass |-> FALSE, eend |-> << >>,
     empty |-> << "No authorities found for opinion ", "opinion_id" >>,
     prelude |-> fetch_opinion_details, plan |-> analyze_citation_relationship,
     base |-> FallbackDetails,
     layout |-> << Line("id", "LEGAL AUTHORITIES CITED"), Line("opinion_details", "Case: ") >>]

find_citing_opinions ==
    [name |-> "find_citing_opinions", mode |-> "list", endpoint |-> "opinions-cited", max |-> 200,
     idarg |-> "", limit |-> 50,
     valid_orders |-> {"id", "depth"}, ordering |-> Order(1, "depth"),
     e404 |-> << "Opinion ", "opinion_id", " ", "not found", "." >>,
     e401 |-> AuthText, e429 |-> << >>,
     ehttp |-> "Error analyzing citing opinions: ", etail |-> << >>,
     eany |-> "Error analyzing citing opinions: ", eclass |-> FALSE, eend |-> << >>,
     empty |-> << "No citing opinions found for opinion ", "opinion_id" >>,
     prelude |-> fetch_opinion_details, plan |-> analyze_citation_relationship,
     base |-> FallbackDetails,
     layout |-> << Line("id", "LATER CASES CITING THIS OPINION"), Line("opinion_details", "Case: ") >>]

\* fetch_opinion_details of the source opinion, then the two tools above as
\* calls; one bare except Exception around all of it (lines 325-327).
analyze_citation_network ==
    [name |-> "analyze_citation_network", mode |-> "network", endpoint |-> "opinions", max |-> 0,
     idarg |-> "", limit |-> 20,
     valid_orders |-> {}, ordering |-> None,
     e404 |-> << >>, e401 |-> << >>, e429 |-> << >>,
     ehttp |-> "", etail |-> << >>,
     eany |-> "Error in citation network analysis: ", eclass |-> FALSE, eend |-> << >>,
     empty |-> << >>,
     prelude |-> fetch_opinion_details, plan |-> NoPlan, base |-> FallbackDetails,
     layout |-> << Line("id", "COMPREHENSIVE CITATION NETWORK ANALYSIS"),
                   Line("opinion_details", "ANALYZING OPINION: ") >>]

\* get_registered_tools
Tools ==
    << get_opinion, get_cluster, get_docket, get_court, search_legal_cases,
       advanced_legal_search, get_judge, get_political_affiliations, get_aba_ratings,
       get_retention_events, get_sources, get_educations, verify_citations,
       find_authorities_cited, find_citing_opinions, analyze_citation_network,
       get_positions >>

ToolNames == LET all == Tools IN {all[i].name : i \in DOMAIN all}
\* The tool function of that name.
D(n) ==
    CASE n = "get_opinion" -> get_opinion
      [] n = "get_cluster" -> get_cluster
      [] n = "get_docket" -> get_docket
      [] n = "get_court" -> get_court
      [] n = "get_judge" -> get_judge
      [] n = "get_positions" -> get_positions
      [] n = "get_educations" -> get_educations
      [] n = "get_political_affiliations" -> get_political_affiliations
      [] n = "get_aba_ratings" -> get_aba_ratings
      [] n = "get_retention_events" -> get_retention_events
      [] n = "get_sources" -> get_sources
      [] n = "search_legal_cases" -> search_legal_cases
      [] n = "advanced_legal_search" -> advanced_legal_search
      [] n = "verify_citations" -> verify_citations
      [] n = "find_authorities_cited" -> find_authorities_cited
      [] n = "find_citing_opinions" -> find_citing_opinions
      [] n = "analyze_citation_network" -> analyze_citation_network

\* ------------------------------------------------------------------ state
VARIABLES
    tool,      \* the tool the client called ("" between calls)
    cur,       \* the tool function executing (tool itself, or the one it calls)
    arg,       \* the shape of the call's input (see Args)
    pc,        \* where the executing function is
    inflight,  \* upstream requests sent and not yet answered
    phase,     \* "prelude" or "records": which plan is being followed
    nrec,      \* records of the primary response still to analyse
    step,      \* position in the plan
    have,      \* steps answered 200 with a decodable body (0: the record itself)
    analysis,  \* the analysis of the record in hand
    analyses,  \* the analyses finished so far
    lost,      \* <<endpoint, class>> of the failed enrichment fetches of this record
    exc,       \* the exception raised and not yet handled
    pstatus,   \* the most recent primary request: who sent it, how it ended,
               \* and how many follow-up requests the record (or prelude)
               \* being analysed has caused so far
    queue,     \* analyze_citation_network: the tools still to call
    parts,     \* analyze_citation_network: analysis_parts
    result,    \* what the call returned
    q,         \* query builder: the call and the params built for it
    m          \* translators: the call and what it returned

vars == << tool, cur, arg, pc, inflight, phase, nrec, step, have, analysis,
           analyses, lost, exc, pstatus, queue, parts, result, q, m >>

NoExc == [class |-> "", code |-> "", origin |-> ""]
NoResult == [kind |-> "", text |-> << >>, origin |-> ""]
NoStatus == [tool |-> "", outcome |-> "", followups |-> 0]
Idle == [op |-> "idle", tool |-> "", args |-> << >>, params |-> << >>]
MIdle == [op |-> "idle"]

\* The shapes of input that take different paths through a tool.
Args(d) ==
    CASE d.mode = "id_or_list" -> {"id", "filters"}
      [] d.mode = "post" -> {"text", "lookup", "none", "both", "toolong", "partial",
                             "text_page", "toolong_volume"}
      [] d.mode = "network" -> {"both", "authorities", "citing", "neither"}
      [] OTHER -> {"query"}

\* ------------------------------------------------------------ text pieces
Contains(text, piece) == \E i \in DOMAIN text : text[i] = piece
ContainsPair(text, a, b) ==
    \E i \in DOMAIN text : i < Len(text) /\ text[i] = a /\ text[i + 1] = b

\* One formatted record: the lines of the layout whose key the analysis has.
RECURSIVE FormatRecord(_, _)
FormatRecord(layout, a) ==
    IF layout = << >> THEN << >>
    ELSE LET l == Head(layout)
         IN (IF l.key \in DOMAIN a THEN << l.label, a[l.key] >> ELSE << >>)
            \o FormatRecord(Tail(layout), a)

RECURSIVE FormatAll(_, _)
FormatAll(layout, as) ==
    IF as = << >> THEN << >>
    ELSE FormatRecord(layout, Head(as)) \o FormatAll(layout, Tail(as))

\* ------------------------------------------------------- error handlers
\* except Exception catches every exception class the calls in the try
\* block can raise (all derive from Exception).
ExceptionClasses == {"HTTPStatusError", "ReadTimeout", "JSONDecodeError", "TypeError", "KeyError"}
ExceptHTTPStatusErrorOnly(class) == class = "HTTPStatusError"
ExceptException(class) == class \in ExceptionClasses

\* verify_citations, 429 whose body has no decodable wait_until.
RateLimitFallback == << "Rate limit", " exceeded: Please wait before making additional requests." >>

\* The text the except block of tool d returns for exception e: the
\* HTTPStatusError handler's branches in the order of the source, then the
\* except Exception handler.  Tools with a bare except Exception (ehttp
\* empty) report an HTTPStatusError like any other exception.
HandlerTextOneBranch(d, e, body) ==
    IF e.class = "HTTPStatusError" /\ d.ehttp # ""
    THEN << d.ehttp, "HTTP ", e.code >> \o d.etail
    ELSE << d.eany, "str(e)" >>
HandlerText(d, e, body) ==
    IF e.class = "HTTPStatusError" /\ d.ehttp # ""
    THEN CASE e.code = "429" /\ d.e429 # << >> -> IF body THEN d.e429 ELSE RateLimitFallback
           [] e.code = "404" /\ d.e404 # << >> -> d.e404
           [] e.code = "401" /\ d.e401 # << >> -> d.e401
           [] OTHER -> << d.ehttp, "HTTP ", e.code >> \o d.etail
    ELSE << d.eany, "str(e)" >>
         \o (IF d.eclass THEN << "Details: ", e.class >> ELSE << >>)
         \o d.eend

\* ------------------------------------------------------- the tool engine
Empty == [k \in {} |-> ""]
Put(a, key, value) == [k \in DOMAIN a \cup {key} |-> IF k = key THEN value ELSE a[k]]
Drop(a, key) == [k \in DOMAIN a \ {key} |-> a[k]]

\* The follow-up requests of the function being executed, in the order of
\* the code: each is made at most once for a record.
CurPlanTwice ==
    (IF phase = "prelude" THEN D(cur).prelude ELSE D(cur).plan)
    \o (IF phase = "prelude" THEN D(cur).prelude ELSE D(cur).plan)
CurPlan == IF phase = "prelude" THEN D(cur).prelude ELSE D(cur).plan

\* A follow-up request is made only inside the branch that has read its URL
\* or id out of the record fetched before (if cluster_response.status_code
\* == 200: ... docket_url = cluster_data.get('docket') ... if docket_url:).
DepIgnored(plan, i, h) == TRUE
DepSatisfied(plan, i, h) == plan[i].dep \in h

\* Every request is awaited where it is made: the function goes on only
\* with the response in hand.
NoAwait(p) == "analyze"
AwaitResponse(p) == p

\* An exception of an enrichment fetch is caught by the innermost try around
\* it; the function goes on after that try block.
ExceptEnrichmentMissing(plan, i) == [pc |-> "except", step |-> i]
ExceptEnrichment(plan, i) == [pc |-> "analyze", step |-> plan[i].exc]

\* What the except block leaves in the analysis.
OnExcept(a, s) ==
    CASE s.onexc = "drop" -> Drop(a, s.key)
      [] s.onexc = "court_id" -> Put(a, s.key, "court_id")
      [] OTHER -> a

\* The tools analyze_citation_network calls, by its include_ flags.
Subtools(a) ==
    CASE a = "both" -> << "find_authorities_cited", "find_citing_opinions" >>
      [] a = "authorities" -> << "find_authorities_cited" >>
      [] a = "citing" -> << "find_citing_opinions" >>
      [] OTHER -> << >>

\* The arguments of verify_citations behind each shape: len(text) (0 when text
\* is None or empty) and which of volume, reporter and page are given.
CitationArgs(a) ==
    LET Of(n, v, r, p) == [text |-> n, volume |-> v, reporter |-> r, page |-> p]
    IN CASE a = "text" -> Of(1, FALSE, FALSE, FALSE)
         [] a = "lookup" -> Of(0, TRUE, TRUE, TRUE)
         [] a = "none" -> Of(0, FALSE, FALSE, FALSE)
         [] a = "both" -> Of(64000, TRUE, TRUE, TRUE)
         [] a = "toolong" -> Of(64001, FALSE, FALSE, FALSE)
         [] a = "partial" -> Of(0, TRUE, TRUE, FALSE)
         [] a = "text_page" -> Of(1, FALSE, FALSE, TRUE)
         [] a = "toolong_volume" -> Of(64001, TRUE, FALSE, FALSE)

\* The text the input validation of verify_citations returns; << >> when the
\* input passes.
ValidationTextAnyTriple(a) ==
    LET x == CitationArgs(a)
    IN IF x.text = 0 /\ ~(x.volume \/ x.reporter \/ x.page)
       THEN << "Error: Must provide either 'text' to parse OR volume/reporter/page for specific lookup." >>
       ELSE IF x.text > 0 /\ (x.volume \/ x.reporter \/ x.page)
       THEN << "Error: Use either 'text' parameter OR volume/reporter/page parameters, not both." >>
       ELSE IF x.text > 64000
       THEN << "Error: Text exceeds 64,000 character limit." >>
       ELSE << >>
ValidationText(a) ==
    LET x == CitationArgs(a)
    IN IF x.text = 0 /\ ~(x.volume /\ x.reporter /\ x.page)
       THEN << "Error: Must provide either 'text' to parse OR volume/reporter/page for specific lookup." >>
       ELSE IF x.text > 0 /\ (x.volume \/ x.reporter \/ x.page)
       THEN << "Error: Use either 'text' parameter OR volume/reporter/page parameters, not both." >>
       ELSE IF x.text > 64000
       THEN << "Error: Text exceeds 64,000 character limit." >>
       ELSE << >>

\* The executing function returns r (or, r.kind = "raised", lets exc out):
\* to the client, or to the tool that called it.
Finish(r) ==
    IF cur = tool
    THEN /\ result' = r
         /\ pc' = "done"
         /\ exc' = NoExc
         /\ UNCHANGED << cur, parts >>
    ELSE IF D(tool).mode = "delegate"
    THEN /\ cur' = tool
         /\ UNCHANGED parts
         /\ IF r.kind = "raised"
            THEN pc' = "except" /\ UNCHANGED << exc, result >>
            ELSE pc' = "done" /\ exc' = NoExc /\ result' = r
    ELSE /\ cur' = tool
         /\ pc' = "parts"
         /\ exc' = NoExc
         /\ UNCHANGED result
         /\ parts' = parts \o << IF cur = "find_authorities_cited"
                                  THEN "PART I: LEGAL AUTHORITIES CITED"
                                  ELSE "PART II: OPINIONS CITING THIS DECISION" >>
                     \o (IF r.kind = "raised"
                         THEN << D(cur).eany, "str(e)" >>
                         ELSE r.text)

Init ==
    /\ tool = "" /\ cur = "" /\ arg = "" /\ pc = "idle"
    /\ inflight = << >> /\ phase = "" /\ nrec = 0 /\ step = 0 /\ have = {}
    /\ analysis = Empty /\ analyses = << >> /\ lost = {}
    /\ exc = NoExc /\ pstatus = NoStatus /\ queue = << >> /\ parts = << >>
    /\ result = NoResult
    /\ q = Idle /\ m = MIdle

Start(t, a) ==
    /\ pc = "idle"
    /\ tool' = t /\ cur' = t /\ arg' = a /\ pc' = "build"
    /\ UNCHANGED << inflight, phase, nrec, step, have, analysis, analyses, lost,
                    exc, pstatus, queue, parts, result, q, m >>

\* The parameters are built; the primary request is next.
Build ==
    /\ pc = "build"
    /\ D(cur).mode \in {"id_or_list", "list"} \/ (D(cur).mode = "post" /\ ValidationText(arg) = << >>)
    /\ pc' = "request"
    /\ UNCHANGED << tool, cur, arg, inflight, phase, nrec, step, have, analysis,
                    analyses, lost, exc, pstatus, queue, parts, result, q, m >>

\* verify_citations turns down its input before any request.
Validate ==
    /\ pc = "build"
    /\ D(cur).mode = "post" /\ ValidationText(arg) # << >>
    /\ Finish([kind |-> "invalid", text |-> ValidationText(arg), origin |-> ""])
    /\ UNCHANGED << tool, arg, inflight, phase, nrec, step, have, analysis,
                    analyses, lost, pstatus, queue, q, m >>

\* advanced_legal_search: return await search_legal_cases(...).
Delegate ==
    /\ pc = "build"
    /\ D(cur).mode = "delegate"
    /\ cur' = "search_legal_cases" /\ arg' = "query"
    /\ UNCHANGED << tool, pc, inflight, phase, nrec, step, have, analysis,
                    analyses, lost, exc, pstatus, queue, parts, result, q, m >>

\* analyze_citation_network starts with fetch_opinion_details of the source.
BuildNetwork ==
    /\ pc = "build"
    /\ D(cur).mode = "network"
    /\ phase' = "prelude" /\ step' = 1 /\ have' = {0} /\ analysis' = D(cur).base
    /\ pc' = "analyze"
    /\ UNCHANGED << tool, cur, arg, inflight, nrec, analyses, lost, exc, pstatus,
                    queue, parts, result, q, m >>

\* An input of the wrong type raises while the parameters are built, inside
\* the try block; in verify_citations that is after the input validation, whose
\* truth tests raise for no input.
BuildFault ==
    /\ pc = "build"
    /\ D(cur).mode # "network" /\ arg # "id"
    /\ D(cur).mode = "post" => ValidationText(arg) = << >>
    /\ exc' = [class |-> "TypeError", code |-> "", origin |-> "build"]
    /\ pc' = "except"
    /\ UNCHANGED << tool, cur, arg, inflight, phase, nrec, step, have, analysis,
                    analyses, lost, pstatus, queue, parts, result, q, m >>

\* await client.get(url, params=params) / client.post(...)
SendPrimary ==
    /\ pc = "request"
    /\ inflight' = Append(inflight, [endpoint |-> D(cur).endpoint, step |-> 0])
    /\ pc' = "await_primary"
    /\ UNCHANGED << tool, cur, arg, phase, nrec, step, have, analysis, analyses,
                    lost, exc, pstatus, queue, parts, result, q, m >>

\* The primary response is a 200 with n records (one for a lookup by id);
\* no record at all is answered with the tool's "none found" text.
RecvPrimaryOk(n) ==
    /\ pc = "await_primary" /\ inflight # << >>
    /\ arg = "id" => n = 1
    /\ inflight' = Tail(inflight)
    /\ pstatus' = [tool |-> cur, outcome |-> "200", followups |-> 0]
    /\ IF n = 0
       THEN /\ Finish([kind |-> "empty", text |-> D(cur).empty, origin |-> ""])
            /\ UNCHANGED << phase, nrec, step, have, analysis, analyses >>
       ELSE /\ nrec' = n /\ analyses' = << >>
            /\ phase' = IF D(cur).prelude # NoPlan THEN "prelude" ELSE "records"
            /\ step' = 1 /\ have' = {0} /\ analysis' = D(cur).base
            /\ pc' = "analyze"
            /\ UNCHANGED << cur, exc, parts, result >>
    /\ UNCHANGED << tool, arg, lost, queue, q, m >>

\* response.raise_for_status() raises on any other status; a timeout raises
\* at the await and an undecodable body at response.json().
RecvPrimaryFail(o) ==
    /\ pc = "await_primary" /\ inflight # << >>
    /\ o # "200"
    /\ inflight' = Tail(inflight)
    /\ pstatus' = [tool |-> cur, outcome |-> o, followups |-> 0]
    /\ exc' = IF IsException(o)
              THEN [class |-> ExceptionClass(o), code |-> "", origin |-> "primary"]
              ELSE [class |-> "HTTPStatusError", code |-> o, origin |-> "primary"]
    /\ pc' = "except"
    /\ UNCHANGED << tool, cur, arg, phase, nrec, step, have, analysis, analyses,
                    lost, queue, parts, result, q, m >>

\* The record has no URL for this step, or the include_ flag is off.  The
\* request for the source opinion of analyze_citation_network is unconditional.
SkipStep ==
    /\ pc = "analyze" /\ step <= Len(CurPlan)
    /\ ~(D(cur).mode = "network" /\ step = 1)
    /\ step' = step + 1
    /\ UNCHANGED << tool, cur, arg, pc, inflight, phase, nrec, have, analysis,
                    analyses, lost, exc, pstatus, queue, parts, result, q, m >>

SendEnrich ==
    /\ pc = "analyze" /\ step <= Len(CurPlan)
    /\ DepSatisfied(CurPlan, step, have)
    /\ inflight' = Append(inflight, [endpoint |-> CurPlan[step].kind, step |-> step])
    /\ pc' = AwaitResponse("await")
    /\ pstatus' = [pstatus EXCEPT !.followups = @ + 1]
    /\ UNCHANGED << tool, cur, arg, phase, nrec, step, have, analysis, analyses,
                    lost, exc, queue, parts, result, q, m >>

\* if response.status_code == 200: data = response.json(); ...
RecvEnrichOk ==
    /\ pc = "await" /\ inflight # << >>
    /\ inflight' = Tail(inflight)
    /\ have' = have \cup {step}
    /\ analysis' = Put(analysis, CurPlan[step].key, CurPlan[step].kind)
    /\ step' = step + 1
    /\ pc' = "analyze"
    /\ UNCHANGED << tool, cur, arg, phase, nrec, analyses, lost, exc, pstatus,
                    queue, parts, result, q, m >>

\* Any other status: the if is not taken, nothing is raised.
RecvEnrichStatus(o) ==
    /\ pc = "await" /\ inflight # << >>
    /\ o \in HttpStatuses \ {"200"}
    /\ inflight' = Tail(inflight)
    /\ lost' = lost \cup {<< CurPlan[step].kind, "status" >>}
    /\ step' = step + 1
    /\ pc' = "analyze"
    /\ UNCHANGED << tool, cur, arg, phase, nrec, have, analysis, analyses, exc,
                    pstatus, queue, parts, result, q, m >>

\* A timeout, or a 200 with an undecodable body.
RecvEnrichRaise(o) ==
    /\ pc = "await" /\ inflight # << >>
    /\ IsException(o)
    /\ inflight' = Tail(inflight)
    /\ lost' = lost \cup {<< CurPlan[step].kind, IF o = "timeout" THEN "network" ELSE "body" >>}
    /\ LET to == ExceptEnrichment(CurPlan, step)
       IN /\ pc' = to.pc
          /\ step' = to.step
          /\ IF to.pc = "except"
             THEN /\ exc' = [class |-> ExceptionClass(o), code |-> "", origin |-> "enrichment"]
                  /\ UNCHANGED analysis
             ELSE /\ analysis' = OnExcept(analysis, CurPlan[step])
                  /\ UNCHANGED exc
    /\ UNCHANGED << tool, cur, arg, phase, nrec, have, analyses, pstatus, queue,
                    parts, result, q, m >>

\* The analysis code outside the enrichment try blocks raises (a translator
\* given None, a field of an unexpected type).
AnalysisFault ==
    /\ pc = "analyze" /\ phase = "records"
    /\ exc' = [class |-> "TypeError", code |-> "", origin |-> "analysis"]
    /\ pc' = "except"
    /\ UNCHANGED << tool, cur, arg, inflight, phase, nrec, step, have, analysis,
                    analyses, lost, pstatus, queue, parts, result, q, m >>

\* fetch_opinion_details has returned.
EndPrelude ==
    /\ pc = "analyze" /\ phase = "prelude" /\ step > Len(CurPlan)
    /\ IF D(cur).mode = "network"
       THEN /\ parts' = FormatRecord(D(cur).layout, analysis)
            /\ queue' = Subtools(arg)
            /\ pc' = "parts"
            /\ UNCHANGED << phase, step, have, analysis, analyses >>
       ELSE /\ analyses' = << analysis >>
            /\ phase' = "records" /\ step' = 1 /\ have' = {0}
            /\ analysis' = D(cur).base
            /\ UNCHANGED << pc, parts, queue >>
    /\ lost' = {}
    /\ pstatus' = [pstatus EXCEPT !.followups = 0]
    /\ UNCHANGED << tool, cur, arg, inflight, nrec, exc, result, q, m >>

\* analyses.append(analysis); the loop goes to the next record.
NextRecord ==
    /\ pc = "analyze" /\ phase = "records" /\ step > Len(CurPlan)
    /\ analyses' = Append(analyses, analysis)
    /\ nrec' = nrec - 1
    /\ IF nrec = 1
       THEN pc' = "format" /\ UNCHANGED << step, have, analysis, lost, pstatus >>
       ELSE /\ pc' = "analyze" /\ step' = 1 /\ have' = {0}
            /\ analysis' = D(cur).base /\ lost' = {}
            /\ pstatus' = [pstatus EXCEPT !.followups = 0]
    /\ UNCHANGED << tool, cur, arg, inflight, phase, exc, queue,
                    parts, result, q, m >>

FormatOk ==
    /\ pc = "format"
    /\ Finish([kind |-> "analysis", text |-> FormatAll(D(cur).layout, analyses), origin |-> ""])
    /\ UNCHANGED << tool, arg, inflight, phase, nrec, step, have, analysis,
                    analyses, lost, pstatus, queue, q, m >>

\* The formatter raises.
FormatFault ==
    /\ pc = "format"
    /\ exc' = [class |-> "KeyError", code |-> "", origin |-> "format"]
    /\ pc' = "except"
    /\ UNCHANGED << tool, cur, arg, inflight, phase, nrec, step, have, analysis,
                    analyses, lost, pstatus, queue, parts, result, q, m >>

\* The except blocks of the executing tool.
Catch(body) ==
    /\ pc = "except"
    /\ IF ExceptException(exc.class)
       THEN Finish([kind |-> "error", text |-> HandlerText(D(cur), exc, body),
                    origin |-> exc.origin])
       ELSE Finish([kind |-> "raised", text |-> << >>, origin |-> exc.origin])
    /\ UNCHANGED << tool, arg, inflight, phase, nrec, step, have, analysis,
                    analyses, lost, pstatus, queue, q, m >>

\* analyze_citation_network calls the next tool of its list.
CallPart ==
    /\ pc = "parts" /\ queue # << >>
    /\ cur' = Head(queue) /\ queue' = Tail(queue)
    /\ arg' = "query" /\ pc' = "build"
    /\ UNCHANGED << tool, inflight, phase, nrec, step, have, analysis, analyses,
                    lost, exc, pstatus, parts, result, q, m >>

\* return "\n".join(analysis_parts)
JoinParts ==
    /\ pc = "parts" /\ queue = << >>
    /\ result' = [kind |-> "analysis", text |-> parts \o << "CITATION NETWORK SUMMARY:" >>,
                  origin |-> ""]
    /\ pc' = "done"
    /\ UNCHANGED << tool, cur, arg, inflight, phase, nrec, step, have, analysis,
                    analyses, lost, exc, pstatus, queue, parts, q, m >>

\* The call is over; the server waits for the next one.
Reset ==
    /\ pc = "done"
    /\ tool' = "" /\ cur' = "" /\ arg' = "" /\ pc' = "idle"
    /\ inflight' = << >> /\ phase' = "" /\ nrec' = 0 /\ step' = 0 /\ have' = {}
    /\ analysis' = Empty /\ analyses' = << >> /\ lost' = {}
    /\ exc' = NoExc /\ pstatus' = NoStatus /\ queue' = << >> /\ parts' = << >>
    /\ result' = NoResult
    /\ UNCHANGED << q, m >>

Next ==
    \/ \E t \in ToolNames : \E a \in Args(D(t)) : Start(t, a)
    \/ Build
    \/ Validate
    \/ Delegate
    \/ BuildNetwork
    \/ BuildFault
    \/ SendPrimary
    \/ \E n \in 0..MaxRecords : RecvPrimaryOk(n)
    \/ \E o \in Outcomes : RecvPrimaryFail(o)
    \/ SkipStep
    \/ SendEnrich
    \/ RecvEnrichOk
    \/ \E o \in Outcomes : RecvEnrichStatus(o)
    \/ \E o \in Outcomes : RecvEnrichRaise(o)
    \/ AnalysisFault
    \/ EndPrelude
    \/ NextRecord
    \/ FormatOk
    \/ FormatFault
    \/ \E body \in BOOLEAN : Catch(body)
    \/ CallPart
    \/ JoinParts
    \/ Reset

Spec == Init /\ [][Next]_vars

\* ------------------------------------------------------ the query builder
\* Bounds: the optional arguments one call sets, and the "-" characters in
\* front of an order_by value.
MaxSupplied == 1
MaxDashes == 2

\* One "if <test>: params[key] = <conv of arg>" of a tool's filter block.
\*   test : "truthy" (if arg:) or "notnone" (if arg is not None:)
\*   conv : what is stored: the value as given ("same"), lower-cased or
\*          upper-cased, or a constant
F(name, key, test, conv) == [arg |-> name, key |-> key, test |-> test, conv |-> conv]

get_aba_ratings_filters ==
    << F("person_id", "person", "truthy", "same"),
       F("rating", "rating", "truthy", "lower"),
       F("year_rated", "year_rated", "truthy", "same"),
       F("year_rated_after", "year_rated__gte", "truthy", "same"),
       F("year_rated_before", "year_rated__lte", "truthy", "same"),
       F("year_rated_gt", "year_rated__gt", "truthy", "same"),
       F("year_rated_lt", "year_rated__lt", "truthy", "same"),
       F("year_rated_range", "year_rated__range", "truthy", "same"),
       F("date_created", "date_created", "truthy", "same"),
       F("date_created_after", "date_created__gte", "truthy", "same"),
       F("date_created_before", "date_created__lte", "truthy", "same"),
       F("date_created_gt", "date_created__gt", "truthy", "same"),
       F("date_created_lt", "date_created__lt", "truthy", "same"),
       F("date_created_range", "date_created__range", "truthy", "same"),
       F("date_created_year", "date_created__year", "truthy", "same"),
       F("date_created_month", "date_created__month", "truthy", "same"),
       F("date_created_day", "date_created__day", "truthy", "same"),
       F("date_created_hour", "date_created__hour", "truthy", "same"),
       F("date_created_minute", "date_created__minute", "truthy", "same"),
       F("date_created_second", "date_created__second", "truthy", "same"),
       F("date_modified", "date_modified", "truthy", "same"),
       F("date_modified_after", "date_modified__gte", "truthy", "same"),
       F("date_modified_before", "date_modified__lte", "truthy", "same"),
       F("date_modified_gt", "date_modified__gt", "truthy", "same"),
       F("date_modified_lt", "date_modified__lt", "truthy", "same"),
       F("date_modified_range", "date_modified__range", "truthy", "same"),
       F("date_modified_year", "date_modified__year", "truthy", "same"),
       F("date_modified_month", "date_modified__month", "truthy", "same"),
       F("date_modified_day", "date_modified__day", "truthy", "same"),
       F("date_modified_hour", "date_modified__hour", "truthy", "same"),
       F("date_modified_minute", "date_modified__minute", "truthy", "same"),
       F("date_modified_second", "date_modified__second", "truthy", "same"),
       F("id_exact", "id", "truthy", "same"),
       F("id_min", "id__gte", "truthy", "same"),
       F("id_max", "id__lte", "truthy", "same"),
       F("id_gt", "id__gt", "truthy", "same"),
       F("id_lt", "id__lt", "truthy", "same"),
       F("id_range", "id__range", "truthy", "same") >>

get_cluster_filters ==
    << F("case_name", "case_name__icontains", "truthy", "same"),
       F("court", "docket__court", "truthy", "lower"),
       F("citation", "citations__cite__icontains", "truthy", "same"),
       F("date_filed_after", "date_filed__gte", "truthy", "same"),
       F("date_filed_before", "date_filed__lte", "truthy", "same"),
       F("date_blocked_after", "date_blocked__gte", "truthy", "same"),
       F("date_blocked_before", "date_blocked__lte", "truthy", "same"),
       F("precedential_status", "precedential_status", "truthy", "same"),
       F("scdb_decision_direction", "scdb_decision_direction", "notnone", "same"),
       F("source", "source", "truthy", "same"),
       F("scdb_id", "scdb_id", "truthy", "same"),
       F("blocked", "blocked", "notnone", "same"),
       F("citation_count_min", "citation_count__gte", "notnone", "same"),
       F("citation_count_max", "citation_count__lte", "notnone", "same"),
       F("scdb_votes_majority_min", "scdb_votes_majority__gte", "notnone", "same"),
       F("scdb_votes_majority_max", "scdb_votes_majority__lte", "notnone", "same"),
       F("scdb_votes_minority_min", "scdb_votes_minority__gte", "notnone", "same"),
       F("scdb_votes_minority_max", "scdb_votes_minority__lte", "notnone", "same") >>

get_court_filters ==
    << F("court_name", "full_name__icontains", "truthy", "same"),
       F("short_name", "short_name__icontains", "truthy", "same"),
       F("citation_string", "citation_string__icontains", "truthy", "same"),
       F("jurisdiction", "jurisdiction", "truthy", "upper"),
       F("parent_court", "parent_court", "truthy", "same"),
       F("in_use", "in_use", "notnone", "same"),
       F("has_opinion_scraper", "has_opinion_scraper", "notnone", "same"),
       F("has_oral_argument_scraper", "has_oral_argument_scraper", "notnone", "same"),
       F("position_min", "position__gte", "notnone", "same"),
       F("position_max", "position__lte", "notnone", "same"),
       F("start_date_after", "start_date__gte", "truthy", "same"),
       F("start_date_before", "start_date__lte", "truthy", "same"),
       F("end_date_after", "end_date__gte", "truthy", "same"),
       F("end_date_before", "end_date__lte", "truthy", "same") >>

get_docket_filters ==
    << F("docket_number", "docket_number", "truthy", "same"),
       F("docket_number_core", "docket_number_core__startswith", "truthy", "same"),
       F("pacer_case_id", "pacer_case_id", "truthy", "same"),
       F("source", "source", "notnone", "same"),
       F("blocked", "blocked", "notnone", "same"),
       F("case_name", "case_name__icontains", "truthy", "same"),
       F("court", "court", "truthy", "lower"),
       F("nature_of_suit", "nature_of_suit__icontains", "truthy", "same"),
       F("assigned_judge", "assigned_to_str__icontains", "truthy", "same"),
       F("referred_judge", "referred_to_str__icontains", "truthy", "same"),
       F("date_filed_after", "date_filed__gte", "truthy", "same"),
       F("date_filed_before", "date_filed__lte", "truthy", "same"),
       F("date_terminated_after", "date_terminated__gte", "truthy", "same"),
       F("date_terminated_before", "date_terminated__lte", "truthy", "same"),
       F("date_last_filing_after", "date_last_filing__gte", "truthy", "same"),
       F("date_last_filing_before", "date_last_filing__lte", "truthy", "same") >>

get_educations_filters ==
    << F("person_id", "person", "truthy", "same"),
       F("school_name", "school__name__icontains", "truthy", "same"),
       F("degree_level", "degree_level", "truthy", "lower"),
       F("degree_year", "degree_year", "truthy", "same"),
       F("degree_detail", "degree_detail", "truthy", "same"),
       F("degree_detail_exact", "degree_detail__exact", "truthy", "same"),
       F("degree_detail_iexact", "degree_detail__iexact", "truthy", "same"),
       F("degree_detail_startswith", "degree_detail__startswith", "truthy", "same"),
       F("degree_detail_istartswith", "degree_detail__istartswith", "truthy", "same"),
       F("degree_detail_endswith", "degree_detail__endswith", "truthy", "same"),
       F("degree_detail_iendswith", "degree_detail__iendswith", "truthy", "same"),
       F("date_created", "date_created", "truthy", "same"),
       F("date_created_after", "date_created__gte", "truthy", "same"),
       F("date_created_before", "date_created__lte", "truthy", "same"),
       F("date_created_gt", "date_created__gt", "truthy", "same"),
       F("date_created_lt", "date_created__lt", "truthy", "same"),
       F("date_created_range", "date_created__range", "truthy", "same"),
       F("date_created_year", "date_created__year", "truthy", "same"),
       F("date_created_month", "date_created__month", "truthy", "same"),
       F("date_created_day", "date_created__day", "truthy", "same"),
       F("date_created_hour", "date_created__hour", "truthy", "same"),
       F("date_created_minute", "date_created__minute", "truthy", "same"),
       F("date_created_second", "date_created__second", "truthy", "same"),
       F("date_modified", "date_modified", "truthy", "same"),
       F("date_modified_after", "date_modified__gte", "truthy", "same"),
       F("date_modified_before", "date_modified__lte", "truthy", "same"),
       F("date_modified_gt", "date_modified__gt", "truthy", "same"),
       F("date_modified_lt", "date_modified__lt", "truthy", "same"),
       F("date_modified_range", "date_modified__range", "truthy", "same"),
       F("date_modified_year", "date_modified__year", "truthy", "same"),
       F("date_modified_month", "date_modified__month", "truthy", "same"),
       F("date_modified_day", "date_modified__day", "truthy", "same"),
       F("date_modified_hour", "date_modified__hour", "truthy", "same"),
       F("date_modified_minute", "date_modified__minute", "truthy", "same"),
       F("date_modified_second", "date_modified__second", "truthy", "same"),
       F("id", "id", "truthy", "same"),
       F("id_gte", "id__gte", "truthy", "same"),
       F("id_lte", "id__lte", "truthy", "same"),
       F("id_gt", "id__gt", "truthy", "same"),
       F("id_lt", "id__lt", "truthy", "same"),
       F("id_range", "id__range", "truthy", "same") >>

get_opinion_filters ==
    << F("court", "cluster__docket__court", "truthy", "lower"),
       F("docket_number", "cluster__docket__docket_number", "truthy", "same"),
       F("date_filed_after", "cluster__date_filed__gte", "truthy", "same"),
       F("date_filed_before", "cluster__date_filed__lte", "truthy", "same"),
       F("opinion_type", "type", "truthy", "same"),
       F("author_name", "author_str__icontains", "truthy", "same"),
       F("per_curiam", "per_curiam", "notnone", "same"),
       F("extracted_by_ocr", "extracted_by_ocr", "notnone", "same"),
       F("date_created_after", "date_created__gte", "truthy", "same"),
       F("date_created_before", "date_created__lte", "truthy", "same") >>

get_judge_filters ==
    << F("name_first", "name_first__icontains", "truthy", "same"),
       F("name_first_exact", "name_first__iexact", "truthy", "same"),
       F("name_first_startswith", "name_first__istartswith", "truthy", "same"),
       F("name_first_endswith", "name_first__iendswith", "truthy", "same"),
       F("name_last", "name_last__icontains", "truthy", "same"),
       F("name_last_exact", "name_last__iexact", "truthy", "same"),
       F("name_last_startswith", "name_last__istartswith", "truthy", "same"),
       F("name_last_endswith", "name_last__iendswith", "truthy", "same"),
       F("name_middle", "name_middle__icontains", "truthy", "same"),
       F("name_middle_exact", "name_middle__iexact", "truthy", "same"),
       F("name_suffix", "name_suffix", "truthy", "lower"),
       F("fjc_id", "fjc_id", "notnone", "same"),
       F("ftm_eid", "ftm_eid", "truthy", "same"),
       F("gender", "gender", "truthy", "lower"),
       F("religion", "religion", "truthy", "lower"),
       F("dob_city", "dob_city__icontains", "truthy", "same"),
       F("dob_city_exact", "dob_city__iexact", "truthy", "same"),
       F("dob_state", "dob_state", "truthy", "upper"),
       F("dob_country", "dob_country__icontains", "truthy", "same"),
       F("dod_city", "dod_city__icontains", "truthy", "same"),
       F("dod_state", "dod_state", "truthy", "upper"),
       F("dod_country", "dod_country__icontains", "truthy", "same"),
       F("date_dob_after", "date_dob__gte", "truthy", "same"),
       F("date_dob_before", "date_dob__lte", "truthy", "same"),
       F("date_dob_year", "date_dob__year", "truthy", "same"),
       F("date_dod_after", "date_dod__gte", "truthy", "same"),
       F("date_dod_before", "date_dod__lte", "truthy", "same"),
       F("date_dod_year", "date_dod__year", "truthy", "same"),
       F("has_photo", "has_photo", "notnone", "same"),
       F("education_degree_level", "educations__degree_level", "truthy", "lower"),
       F("education_school_name", "educations__school__name__icontains", "truthy", "same"),
       F("political_party", "political_affiliations__political_party", "truthy", "lower"),
       F("political_source", "political_affiliations__source", "truthy", "lower"),
       F("aba_rating", "aba_ratings__rating", "truthy", "lower"),
       F("position_type", "positions__position_type__icontains", "truthy", "same"),
       F("court_name", "positions__court__full_name__icontains", "truthy", "same"),
       F("exclude_aliases", "is_alias_of__isnull", "truthy", "const_true") >>

get_political_affiliations_filters ==
    << F("person_id", "person", "truthy", "same"),
       F("political_party", "political_party", "truthy", "lower"),
       F("source", "source", "truthy", "lower"),
       F("date_start", "date_start", "truthy", "same"),
       F("date_start_after", "date_start__gte", "truthy", "same"),
       F("date_start_before", "date_start__lte", "truthy", "same"),
       F("date_start_gt", "date_start__gt", "truthy", "same"),
       F("date_start_lt", "date_start__lt", "truthy", "same"),
       F("date_start_range", "date_start__range", "truthy", "same"),
       F("date_start_year", "date_start__year", "truthy", "same"),
       F("date_start_month", "date_start__month", "truthy", "same"),
       F("date_start_day", "date_start__day", "truthy", "same"),
       F("date_end", "date_end", "truthy", "same"),
       F("date_end_after", "date_end__gte", "truthy", "same"),
       F("date_end_before", "date_end__lte", "truthy", "same"),
       F("date_end_gt", "date_end__gt", "truthy", "same"),
       F("date_end_lt", "date_end__lt", "truthy", "same"),
       F("date_end_range", "date_end__range", "truthy", "same"),
       F("date_end_year", "date_end__year", "truthy", "same"),
       F("date_end_month", "date_end__month", "truthy", "same"),
       F("date_end_day", "date_end__day", "truthy", "same"),
       F("date_created", "date_created", "truthy", "same"),
       F("date_created_after", "date_created__gte", "truthy", "same"),
       F("date_created_before", "date_created__lte", "truthy", "same"),
       F("date_created_gt", "date_created__gt", "truthy", "same"),
       F("date_created_lt", "date_created__lt", "truthy", "same"),
       F("date_created_range", "date_created__range", "truthy", "same"),
       F("date_created_year", "date_created__year", "truthy", "same"),
       F("date_created_month", "date_created__month", "truthy", "same"),
       F("date_created_day", "date_created__day", "truthy", "same"),
       F("date_created_hour", "date_created__hour", "truthy", "same"),
       F("date_created_minute", "date_created__minute", "truthy", "same"),
       F("date_created_second", "date_created__second", "truthy", "same"),
       F("date_modified", "date_modified", "truthy", "same"),
       F("date_modified_after", "date_modified__gte", "truthy", "same"),
       F("date_modified_before", "date_modified__lte", "truthy", "same"),
       F("date_modified_gt", "date_modified__gt", "truthy", "same"),
       F("date_modified_lt", "date_modified__lt", "truthy", "same"),
       F("date_modified_range", "date_modified__range", "truthy", "same"),
       F("date_modified_year", "date_modified__year", "truthy", "same"),
       F("date_modified_month", "date_modified__month", "truthy", "same"),
       F("date_modified_day", "date_modified__day", "truthy", "same"),
       F("date_modified_hour", "date_modified__hour", "truthy", "same"),
       F("date_modified_minute", "date_modified__minute", "truthy", "same"),
       F("date_modified_second", "date_modified__second", "truthy", "same"),
       F("id_exact", "id", "truthy", "same"),
       F("id_min", "id__gte", "truthy", "same"),
       F("id_max", "id__lte", "truthy", "same"),
       F("id_gt", "id__gt", "truthy", "same"),
       F("id_lt", "id__lt", "truthy", "same"),
       F("id_range", "id__range", "truthy", "same") >>

get_positions_filters ==
    << F("person_id", "person", "truthy", "same"),
       F("court_id", "court", "truthy", "same"),
       F("position_type", "position_type", "truthy", "same"),
       F("how_selected", "how_selected", "truthy", "same"),
       F("appointer_id", "appointer", "truthy", "same"),
       F("termination_reason", "termination_reason", "truthy", "same"),
       F("job_title", "job_title__icontains", "truthy", "same"),
       F("organization_name", "organization_name__icontains", "truthy", "same"),
       F("location_city", "location_city__icontains", "truthy", "same"),
       F("location_state", "location_state", "truthy", "same"),
       F("date_start_after", "date_start__gte", "truthy", "same"),
       F("date_start_before", "date_start__lte", "truthy", "same"),
       F("date_termination_after", "date_termination__gte", "truthy", "same"),
       F("date_termination_before", "date_termination__lte", "truthy", "same"),
       F("date_nominated_after", "date_nominated__gte", "truthy", "same"),
       F("date_nominated_before", "date_nominated__lte", "truthy", "same"),
       F("date_confirmation_after", "date_confirmation__gte", "truthy", "same"),
       F("date_confirmation_before", "date_confirmation__lte", "truthy", "same"),
       F("votes_yes_min", "votes_yes__gte", "notnone", "same"),
       F("votes_yes_max", "votes_yes__lte", "notnone", "same"),
       F("votes_no_min", "votes_no__gte", "notnone", "same"),
       F("votes_no_max", "votes_no__lte", "notnone", "same"),
       F("voice_vote", "voice_vote", "notnone", "same") >>

get_retention_events_filters ==
    << F("position_id", "position", "truthy", "same"),
       F("retention_type", "retention_type", "truthy", "lower"),
       F("date_retention", "date_retention", "truthy", "same"),
       F("date_retention_after", "date_retention__gte", "truthy", "same"),
       F("date_retention_before", "date_retention__lte", "truthy", "same"),
       F("date_retention_gt", "date_retention__gt", "truthy", "same"),
       F("date_retention_lt", "date_retention__lt", "truthy", "same"),
       F("date_retention_range", "date_retention__range", "truthy", "same"),
       F("date_retention_year", "date_retention__year", "truthy", "same"),
       F("date_retention_month", "date_retention__month", "truthy", "same"),
       F("date_retention_day", "date_retention__day", "truthy", "same"),
       F("votes_yes", "votes_yes", "notnone", "same"),
       F("votes_yes_min", "votes_yes__gte", "notnone", "same"),
       F("votes_yes_max", "votes_yes__lte", "notnone", "same"),
       F("votes_yes_gt", "votes_yes__gt", "notnone", "same"),
       F("votes_yes_lt", "votes_yes__lt", "notnone", "same"),
       F("votes_yes_range", "votes_yes__range", "truthy", "same"),
       F("votes_no", "votes_no", "notnone", "same"),
       F("votes_no_min", "votes_no__gte", "notnone", "same"),
       F("votes_no_max", "votes_no__lte", "notnone", "same"),
       F("votes_no_gt", "votes_no__gt", "notnone", "same"),
       F("votes_no_lt", "votes_no__lt", "notnone", "same"),
       F("votes_no_range", "votes_no__range", "truthy", "same"),
       F("unopposed", "unopposed", "notnone", "same"),
       F("won", "won", "notnone", "same"),
       F("date_created", "date_created", "truthy", "same"),
       F("date_created_after", "date_created__gte", "truthy", "same"),
       F("date_created_before", "date_created__lte", "truthy", "same"),
       F("date_created_gt", "date_created__gt", "truthy", "same"),
       F("date_created_lt", "date_created__lt", "truthy", "same"),
       F("date_created_range", "date_created__range", "truthy", "same"),
       F("date_created_year", "date_created__year", "truthy", "same"),
       F("date_created_month", "date_created__month", "truthy", "same"),
       F("date_created_day", "date_created__day", "truthy", "same"),
       F("date_created_hour", "date_created__hour", "truthy", "same"),
       F("date_created_minute", "date_created__minute", "truthy", "same"),
       F("date_created_second", "date_created__second", "truthy", "same"),
       F("date_modified", "date_modified", "truthy", "same"),
       F("date_modified_after", "date_modified__gte", "truthy", "same"),
       F("date_modified_before", "date_modified__lte", "truthy", "same"),
       F("date_modified_gt", "date_modified__gt", "truthy", "same"),
       F("date_modified_lt", "date_modified__lt", "truthy", "same"),
       F("date_modified_range", "date_modified__range", "truthy", "same"),
       F("date_modified_year", "date_modified__year", "truthy", "same"),
       F("date_modified_month", "date_modified__month", "truthy", "same"),
       F("date_modified_day", "date_modified__day", "truthy", "same"),
       F("date_modified_hour", "date_modified__hour", "truthy", "same"),
       F("date_modified_minute", "date_modified__minute", "truthy", "same"),
       F("date_modified_second", "date_modified__second", "truthy", "same"),
       F("id_exact", "id", "truthy", "same"),
       F("id_min", "id__gte", "truthy", "same"),
       F("id_max", "id__lte", "truthy", "same"),
       F("id_gt", "id__gt", "truthy", "same"),
       F("id_lt", "id__lt", "truthy", "same"),
       F("id_range", "id__range", "truthy", "same") >>

search_legal_cases_filters ==
    << F("court", "court", "truthy", "same"),
       F("judge", "judge", "truthy", "same"),
       F("date_filed_after", "filed_after", "truthy", "same"),
       F("date_filed_before", "filed_before", "truthy", "same"),
       F("citation", "citation", "truthy", "same"),
       F("case_name", "case_name", "truthy", "same"),
       F("docket_number", "docket_number", "truthy", "same"),
       F("status", "stat_Published", "truthy", "on_if_Published"),
       F("status", "stat_Unpublished", "truthy", "on_if_Unpublished"),
       F("enable_highlighting", "highlight", "truthy", "const_on") >>

get_sources_filters ==
    << F("person_id", "person", "truthy", "same"),
       F("date_modified", "date_modified", "truthy", "same"),
       F("date_modified_after", "date_modified__gte", "truthy", "same"),
       F("date_modified_before", "date_modified__lte", "truthy", "same"),
       F("date_modified_gt", "date_modified__gt", "truthy", "same"),
       F("date_modified_lt", "date_modified__lt", "truthy", "same"),
       F("date_modified_range", "date_modified__range", "truthy", "same"),
       F("date_modified_year", "date_modified__year", "truthy", "same"),
       F("date_modified_month", "date_modified__month", "truthy", "same"),
       F("date_modified_day", "date_modified__day", "truthy", "same"),
       F("date_modified_hour", "date_modified__hour", "truthy", "same"),
       F("date_modified_minute", "date_modified__minute", "truthy", "same"),
       F("date_modified_second", "date_modified__second", "truthy", "same"),
       F("id", "id", "truthy", "same") >>

Filters(t) ==
    CASE t = "get_opinion" -> get_opinion_filters
      [] t = "get_cluster" -> get_cluster_filters
      [] t = "get_docket" -> get_docket_filters
      [] t = "get_court" -> get_court_filters
      [] t = "get_judge" -> get_judge_filters
      [] t = "get_positions" -> get_positions_filters
      [] t = "get_educations" -> get_educations_filters
      [] t = "get_political_affiliations" -> get_political_affiliations_filters
      [] t = "get_aba_ratings" -> get_aba_ratings_filters
      [] t = "get_retention_events" -> get_retention_events_filters
      [] t = "get_sources" -> get_sources_filters
      [] t = "search_legal_cases" -> search_legal_cases_filters
      [] OTHER -> << >>

\* The tools that build a query mapping, and the tools that take order_by.
QueryTools == {t \in ToolNames : D(t).mode \notin {"post", "network"}}
SearchTools == {"search_legal_cases", "advanced_legal_search"}
TakesOrderBy(t) == D(t).valid_orders # {} \/ t \in SearchTools

\* The optional arguments of a tool that reach its query.
ParamNames(t) ==
    IF t = "advanced_legal_search"
    THEN {"order_by", "enable_highlighting", "limit"}
    ELSE {Filters(t)[i].arg : i \in DOMAIN Filters(t)}
         \cup {"limit"}
         \cup (IF D(t).idarg # "" THEN {D(t).idarg} ELSE {})
         \cup (IF TakesOrderBy(t) THEN {"order_by"} ELSE {})

\* The values a caller may give an argument.
OrderFields(t) ==
    IF t \in SearchTools
    THEN {"", "relevance", "dateFiled desc", "id"}
    ELSE D(t).valid_orders \cup {"", "name"}
ValuesOf(t, name) ==
    CASE name = "limit" -> {Number(i) : i \in {-5, 0, 1, 20, 21, 50, 51, 100, 101, 200, 201, 9999}}
      [] name = "order_by" ->
            {Order(d, f) : d \in 0..MaxDashes, f \in OrderFields(t)}
      [] OTHER -> {Given("v"), Given("f")}

\* The signature's default of an argument the caller leaves out.
Default(t, name) ==
    CASE name = "limit" -> Number(D(t).limit)
      [] t = "get_judge" /\ name = "exclude_aliases" -> Given("v")
      [] t \in SearchTools /\ name = "enable_highlighting" -> Given("v")
      [] t = "advanced_legal_search" /\ name = "order_by" -> Order(0, "relevance")
      [] OTHER -> None

Arg(t, a, name) == IF name \in DOMAIN a THEN a[name] ELSE Default(t, name)

\* Python's truth value of an argument.
Truthy(v) ==
    CASE v.kind = "v" -> TRUE
      [] v.kind = "int" -> v.n # 0
      [] v.kind = "order" -> ~(v.n = 0 /\ v.s = "")
      [] OTHER -> FALSE

\* Whether the if of a filter row is taken.
EmitsAlways(test, v) == TRUE
Emits(test, v) == IF test = "notnone" THEN v.kind # "none" ELSE Truthy(v)

\* min(max(1, limit), <max>)
PageSizeNoFloor(limit, most) == IF limit < most THEN limit ELSE most
PageSize(limit, most) ==
    LET floored == IF 1 > limit THEN 1 ELSE limit
    IN IF floored < most THEN floored ELSE most

\* The ordering a tool with valid_orders sends.
Ordering(t, o) ==
    IF Truthy(o)
    THEN IF o.s \in D(t).valid_orders THEN o ELSE D(t).ordering
    ELSE D(t).ordering

FilterParamsLowered(t, a) ==
    LET rows == Filters(t)
        on == {i \in DOMAIN rows : Emits(rows[i].test, Arg(t, a, rows[i].arg))}
    IN [k \in {rows[i].key : i \in on} |->
            LET i == CHOOSE j \in on : rows[j].key = k
            IN [kind |-> IF rows[i].conv = "same" THEN "lower" ELSE rows[i].conv,
                s |-> rows[i].arg, n |-> 0]]
FilterParams(t, a) ==
    LET rows == Filters(t)
        on == {i \in DOMAIN rows : Emits(rows[i].test, Arg(t, a, rows[i].arg))}
    IN [k \in {rows[i].key : i \in on} |->
            LET i == CHOOSE j \in on : rows[j].key = k
            IN [kind |-> rows[i].conv, s |-> rows[i].arg, n |-> 0]]

\* The parameters set before the filters.
BaseParams(t) ==
    CASE t = "search_legal_cases" ->
            [k \in {"q", "type", "format"} |-> [kind |-> "same", s |-> k, n |-> 0]]
      [] t = "find_authorities_cited" ->
            [k \in {"citing_opinion"} |-> [kind |-> "same", s |-> "opinion_id", n |-> 0]]
      [] t = "find_citing_opinions" ->
            [k \in {"cited_opinion"} |-> [kind |-> "same", s |-> "opinion_id", n |-> 0]]
      [] OTHER -> Empty

OrderParams(t, a) ==
    IF t \in SearchTools
    THEN IF Truthy(Arg(t, a, "order_by"))
         THEN [k \in {"order_by"} |-> Arg(t, a, "order_by")]
         ELSE Empty
    ELSE IF D(t).valid_orders # {}
    THEN [k \in {"ordering"} |-> Ordering(t, Arg(t, a, "order_by"))]
    ELSE [k \in {"ordering"} |-> D(t).ordering]

\* The params mapping of the request the tool sends for the arguments a (a
\* function from the names of the arguments the caller gave to their
\* values).  advanced_legal_search hands its own order_by,
\* enable_highlighting and limit on to search_legal_cases.
RECURSIVE BuildParams(_, _)
BuildParams(t, a) ==
    IF t = "advanced_legal_search"
    THEN BuildParams("search_legal_cases",
                     [k \in {"order_by", "enable_highlighting", "limit"} |-> Arg(t, a, k)])
    ELSE IF D(t).idarg # "" /\ Truthy(Arg(t, a, D(t).idarg))
    THEN Empty
    ELSE BaseParams(t) @@ FilterParams(t, a) @@ OrderParams(t, a)
         @@ [k \in {"page_size"} |-> Number(PageSize(Arg(t, a, "limit").n, D(t).max))]

\* A client prepares a call of tool t.
QStart(t) ==
    /\ pc = "idle" /\ q.op = "idle"
    /\ q' = [op |-> "call", tool |-> t, args |-> Empty, params |-> Empty]
    /\ UNCHANGED << tool, cur, arg, pc, inflight, phase, nrec, step, have, analysis,
                    analyses, lost, exc, pstatus, queue, parts, result, m >>

\* ... and gives one more argument a value.
QSupply(name, v) ==
    /\ q.op = "call"
    /\ name \notin DOMAIN q.args
    /\ Cardinality(DOMAIN q.args) < MaxSupplied
    /\ q' = [q EXCEPT !.args = Put(q.args, name, v)]
    /\ UNCHANGED << tool, cur, arg, pc, inflight, phase, nrec, step, have, analysis,
                    analyses, lost, exc, pstatus, queue, parts, result, m >>

\* The tool builds params and sends the request.
QBuild ==
    /\ q.op = "call"
    /\ q' = [q EXCEPT !.op = "sent", !.params = BuildParams(q.tool, q.args)]
    /\ UNCHANGED << tool, cur, arg, pc, inflight, phase, nrec, step, have, analysis,
                    analyses, lost, exc, pstatus, queue, parts, result, m >>

QReset ==
    /\ q.op = "sent"
    /\ q' = Idle
    /\ UNCHANGED << tool, cur, arg, pc, inflight, phase, nrec, step, have, analysis,
                    analyses, lost, exc, pstatus, queue, parts, result, m >>

NextQuery ==
    \/ \E t \in QueryTools : QStart(t)
    \/ /\ q.op = "call"
       /\ \E name \in ParamNames(q.tool) : \E v \in ValuesOf(q.tool, name) : QSupply(name, v)
    \/ QBuild
    \/ QReset

SpecQuery == Init /\ [][NextQuery]_vars


\* --------------------------------------------------------- translators
\* Integer codes given to the source translators: 0..MaxSourceCode.
MaxSourceCode == 130

\* An input of a translator: None, a string (items: its comma-separated
\* parts, stripped), an integer, or a list of strings.
NoneIn == [kind |-> "none", s |-> "", n |-> 0, items |-> << >>]
StrIn(str, split) == [kind |-> "str", s |-> str, n |-> 0, items |-> split]
ListIn(l) == [kind |-> "list", s |-> "", n |-> 0, items |-> l]

\* What a call of a translator ends in: a string (its pieces), None, a
\* value that is not a string, or an exception.
Str(pieces) == [kind |-> "str", text |-> pieces]
ReturnsNone == [kind |-> "none", text |-> << >>]
ReturnsInput == [kind |-> "input", text |-> << >>]
Raises(class) == [kind |-> "raise", text |-> << class >>]

\* str(x) inside an f-string.
Repr(x) ==
    CASE x.kind = "str" -> x.s
      [] x.kind = "int" -> ToString(x.n)
      [] x.kind = "none" -> "None"
      [] OTHER -> "[...]"

\* not x
Falsy(x) ==
    \/ x.kind = "none"
    \/ x.kind = "str" /\ x.s = ""
    \/ x.kind = "int" /\ x.n = 0
    \/ x.kind = "list" /\ x.items = << >>

race_mapping ==
    [w |-> "White", b |-> "Black or African American",
     i |-> "American Indian or Alaska Native", a |-> "Asian",
     p |-> "Native Hawaiian or Other Pacific Islander",
     mena |-> "Middle Eastern/North African", h |-> "Hispanic/Latino", o |-> "Other"]

\* race_mapping.get(code, f"Unknown ({code})"); a list is not hashable.
get_race_display(x) ==
    IF x.kind = "list" THEN Raises("TypeError")
    ELSE IF x.kind = "str" /\ x.s \in DOMAIN race_mapping THEN Str(<< race_mapping[x.s] >>)
    ELSE Str(<< "Unknown (", Repr(x), ")" >>)

type_mapping ==
    ("010combined" :> "Combined Opinion") @@ ("015unamimous" :> "Unanimous Opinion")
    @@ ("020lead" :> "Lead Opinion") @@ ("025plurality" :> "Plurality Opinion")
    @@ ("030concurrence" :> "Concurrence Opinion")
    @@ ("035concurrenceinpart" :> "In Part Opinion") @@ ("040dissent" :> "Dissent")
    @@ ("050addendum" :> "Addendum") @@ ("060remittitur" :> "Remittitur")
    @@ ("070rehearing" :> "Rehearing") @@ ("080onthemerits" :> "On the Merits")
    @@ ("090onmotiontostrike" :> "On Motion to Strike Cost Bill")
    @@ ("100trialcourt" :> "Trial Court Document")

\* type_mapping.get(type_code, type_code or "Unknown")
OpinionTypeEcho(x) == IF x.kind = "str" THEN Str(<< x.s >>) ELSE Str(<< "Unknown" >>)
get_opinion_type_display(x) ==
    IF x.kind = "list" THEN Raises("TypeError")
    ELSE IF x.kind = "str" /\ x.s \in DOMAIN type_mapping THEN Str(<< type_mapping[x.s] >>)
    ELSE IF Falsy(x) THEN Str(<< "Unknown" >>)
    ELSE IF x.kind = "str" THEN Str(<< x.s >>)
    ELSE ReturnsInput

get_source_display(x) ==
    IF x.kind = "none" THEN Str(<< "Unknown" >>)
    ELSE IF x.kind = "list" THEN Raises("TypeError")
    ELSE IF x.kind = "int" /\ x.n \in {0, 1, 2, 3, 4, 8, 16, 32, 64}
    THEN Str(<< CASE x.n = 0 -> "Default" [] x.n = 1 -> "RECAP" [] x.n = 2 -> "Scraper"
                  [] x.n = 3 -> "RECAP and Scraper" [] x.n = 4 -> "Columbia"
                  [] x.n = 8 -> "Integrated Database" [] x.n = 16 -> "Harvard"
                  [] x.n = 32 -> "Direct court input"
                  [] OTHER -> "2020 anonymous database" >>)
    ELSE Str(<< "Multiple sources (", Repr(x), ")" >>)

\* source_code & bit
BitSet(n, bit) == (n \div bit) % 2 = 1

\* The components of a code that is not a key of source_mapping.
ComponentsLowBits(n) ==
    (IF BitSet(n, 1) THEN << "RECAP" >> ELSE << >>)
    \o (IF BitSet(n, 2) THEN << "Scraper" >> ELSE << >>)
    \o (IF BitSet(n, 4) THEN << "Columbia" >> ELSE << >>)
    \o (IF BitSet(n, 8) THEN << "IDB" >> ELSE << >>)
Components(n) ==
    (IF BitSet(n, 1) THEN << "RECAP" >> ELSE << >>)
    \o (IF BitSet(n, 2) THEN << "Scraper" >> ELSE << >>)
    \o (IF BitSet(n, 4) THEN << "Columbia" >> ELSE << >>)
    \o (IF BitSet(n, 8) THEN << "IDB" >> ELSE << >>)
    \o (IF BitSet(n, 16) THEN << "Harvard" >> ELSE << >>)
    \o (IF BitSet(n, 32) THEN << "Direct court input" >> ELSE << >>)
    \o (IF BitSet(n, 64) THEN << "2020 anonymous database" >> ELSE << >>)

\* sep.join(items), as the pieces of the string.
RECURSIVE Join(_, _)
Join(items, sep) ==
    IF Len(items) <= 1 THEN items
    ELSE << Head(items), sep >> \o Join(Tail(items), sep)

\* A key of source_mapping returns its label; any other integer its
\* components joined by " and "; None and strings are not keys and raise
\* TypeError at source_code & 1.
get_enhanced_source_display(x) ==
    IF x.kind = "list" THEN Raises("TypeError")
    ELSE IF x.kind = "int" /\ x.n \in {0, 1, 2, 3, 4, 5, 6, 7, 8, 9, 10, 16, 17, 32, 64}
    THEN Str(<< CASE x.n = 0 -> "Default" [] x.n = 1 -> "RECAP" [] x.n = 2 -> "Scraper"
                  [] x.n = 3 -> "RECAP and Scraper" [] x.n = 4 -> "Columbia"
                  [] x.n = 5 -> "Columbia and RECAP" [] x.n = 6 -> "Columbia and Scraper"
                  [] x.n = 7 -> "Columbia, RECAP, and Scraper"
                  [] x.n = 8 -> "Integrated Database" [] x.n = 9 -> "RECAP and IDB"
                  [] x.n = 10 -> "Scraper and IDB" [] x.n = 16 -> "Harvard"
                  [] x.n = 17 -> "Harvard and RECAP" [] x.n = 32 -> "Direct court input"
                  [] OTHER -> "2020 anonymous database" >>)
    ELSE IF x.kind # "int" THEN Raises("TypeError")
    ELSE IF Components(x.n) # << >> THEN Str(Join(Components(x.n), " and "))
    ELSE Str(<< "Unknown source combination (", Repr(x), ")" >>)

\* The labels of the non-empty codes of a list.
RECURSIVE RaceDisplays(_)
RaceDisplays(codes) ==
    IF codes = << >> THEN << >>
    ELSE (IF Head(codes) = "" THEN << >>
          ELSE get_race_display(StrIn(Head(codes), << Head(codes) >>)).text)
         \o RaceDisplays(Tail(codes))

get_race_display_multiple(x) ==
    IF Falsy(x) THEN ReturnsNone
    ELSE IF x.kind \notin {"list", "str"} THEN Str(<< "Unknown (", Repr(x), ")" >>)
    ELSE IF RaceDisplays(x.items) # << >> THEN Str(RaceDisplays(x.items))
    ELSE Str(<< "Unknown (", Repr(x), ")" >>)

Translators ==
    {"get_race_display", "get_opinion_type_display", "get_source_display",
     "get_enhanced_source_display", "get_race_display_multiple"}

Translate(f, x) ==
    CASE f = "get_race_display" -> get_race_display(x)
      [] f = "get_opinion_type_display" -> get_opinion_type_display(x)
      [] f = "get_source_display" -> get_source_display(x)
      [] f = "get_enhanced_source_display" -> get_enhanced_source_display(x)
      [] OTHER -> get_race_display_multiple(x)

\* The inputs a translator is given: None, and values of the type its
\* signature declares (codes it knows, the empty string, codes it does not
\* know; for get_race_display_multiple also lists of codes).
StringInputs ==
    {NoneIn, StrIn("", << "" >>), StrIn("w", << "w" >>), StrIn("zz", << "zz" >>),
     StrIn("w,b", << "w", "b" >>), StrIn(",", << "", "" >>),
     StrIn("040dissent", << "040dissent" >>)}

TranslatorInputs(f) ==
    CASE f \in {"get_source_display", "get_enhanced_source_display"} ->
            {NoneIn} \cup {[kind |-> "int", s |-> "", n |-> i, items |-> << >>] : i \in 0..MaxSourceCode}
      [] f = "get_race_display_multiple" ->
            StringInputs
            \cup {ListIn(<< >>), ListIn(<< "w" >>), ListIn(<< "w", "h" >>), ListIn(<< "" >>)}
      [] OTHER -> StringInputs

MCall(f, x) ==
    /\ pc = "idle" /\ m.op = "idle"
    /\ m' = [op |-> "called", fn |-> f, input |-> x]
    /\ UNCHANGED << tool, cur, arg, pc, inflight, phase, nrec, step, have, analysis,
                    analyses, lost, exc, pstatus, queue, parts, result, q >>

MReturn ==
    /\ m.op = "called"
    /\ m' = [op |-> "returned", fn |-> m.fn, input |-> m.input,
             out |-> Translate(m.fn, m.input)]
    /\ UNCHANGED << tool, cur, arg, pc, inflight, phase, nrec, step, have, analysis,
                    analyses, lost, exc, pstatus, queue, parts, result, q >>

MReset ==
    /\ m.op = "returned"
    /\ m' = MIdle
    /\ UNCHANGED << tool, cur, arg, pc, inflight, phase, nrec, step, have, analysis,
                    analyses, lost, exc, pstatus, queue, parts, result, q >>

NextMap ==
    \/ \E f \in Translators : \E x \in TranslatorInputs(f) : MCall(f, x)
    \/ MReturn
    \/ MReset

SpecMap == Init /\ [][NextMap]_vars

\* ------------------------------------------------- the analysis records
\* One coded field of an analysis record: the analyzer that builds the
\* record, the upstream field read, the condition under which the translator
\* is called ("always", "truthy": if x.get(f), "notnone": if x.get(f) is
\* not None; the key holds None otherwise), and the keys that hold the raw
\* value and the translation.  A key is << stem, suffix >>; raw is
\* << "", "" >> when no key of the record holds the raw value.
R(analyzer, field, test, raw, display) ==
    [analyzer |-> analyzer, field |-> field, test |-> test, raw |-> raw, display |-> display]

coded_fields ==
    << R("analyze_opinion_thoroughly", "type", "always", << "type", "" >>, << "type", "_display" >>),
       R("analyze_cluster_thoroughly_enhanced", "type", "truthy", << "type", "" >>, << "type", "_display" >>),
       R("analyze_cluster_thoroughly_enhanced", "precedential_status", "always",
         << "precedential_status", "" >>, << "precedential_status", "_display" >>),
       R("analyze_cluster_thoroughly_enhanced", "source", "always",
         << "source", "" >>, << "source", "_display" >>),
       R("analyze_cluster_thoroughly_enhanced", "decision_direction", "truthy",
         << "decision_direction", "" >>, << "decision_direction", "_display" >>),
       R("analyze_court_thoroughly", "jurisdiction", "always",
         << "jurisdiction", "" >>, << "jurisdiction", "_display" >>),
       R("analyze_aba_rating_thoroughly", "rating", "truthy", << "rating", "" >>, << "rating", "_display" >>),
       R("analyze_education_thoroughly", "degree_level", "truthy",
         << "degree_level", "" >>, << "degree_level", "_display" >>),
       R("analyze_retention_event_thoroughly", "retention_type", "truthy",
         << "retention_type", "" >>, << "retention_type", "_display" >>),
       R("analyze_political_affiliation_thoroughly", "political_party", "truthy",
         << "political_party", "" >>, << "political_party", "_display" >>),
       R("analyze_political_affiliation_thoroughly", "source", "truthy",
         << "source", "" >>, << "source", "_display" >>),
       R("analyze_political_affiliation_thoroughly", "date_granularity_start", "truthy",
         << "date_granularity_start", "" >>, << "date_granularity_start", "_display" >>),
       R("analyze_political_affiliation_thoroughly", "date_granularity_end", "truthy",
         << "date_granularity_end", "" >>, << "date_granularity_end", "_display" >>),
       R("analyze_position_thoroughly", "position_type", "truthy",
         << "position_type", "" >>, << "position_type", "_display" >>),
       R("analyze_position_thoroughly", "how_selected", "truthy",
         << "how_selected", "" >>, << "how_selected", "_display" >>),
       R("analyze_position_thoroughly", "nomination_process", "truthy",
         << "nomination_process", "" >>, << "nomination_process", "_display" >>),
       R("analyze_position_thoroughly", "date_granularity_start", "truthy",
         << "date_granularity_start", "" >>, << "date_granularity_start", "_display" >>),
       R("analyze_position_thoroughly", "date_granularity_termination", "truthy",
         << "date_granularity_termination", "" >>, << "date_granularity_termination", "_display" >>),
       R("analyze_position_thoroughly", "termination_reason", "truthy",
         << "termination_reason", "" >>, << "termination_reason", "_display" >>),
       R("analyze_position_thoroughly", "vote_type", "truthy",
         << "vote_type", "" >>, << "vote_type", "_display" >>),
       R("build_enhanced_docket_summary", "source", "always", << "source", "_code" >>, << "source", "" >>),
       R("build_enhanced_docket_summary", "dataset_source", "truthy",
         << "dataset_source", "_code" >>, << "dataset_source", "" >>),
       R("build_enhanced_docket_summary", "origin", "truthy", << "origin", "_code" >>, << "origin", "" >>),
       R("build_enhanced_docket_summary", "jurisdiction", "truthy",
         << "jurisdiction", "_code" >>, << "jurisdiction", "" >>),
       R("build_enhanced_docket_summary", "nature_of_suit", "truthy",
         << "nature_of_suit", "_code" >>, << "nature_of_suit", "" >>),
       R("build_enhanced_docket_summary", "disposition", "truthy",
         << "disposition", "_code" >>, << "disposition", "" >>),
       R("build_enhanced_docket_summary", "procedural_progress", "truthy",
         << "procedural_progress", "_code" >>, << "procedural_progress", "" >>),
       R("build_enhanced_docket_summary", "judgment", "truthy", << "judgment", "_code" >>, << "judgment", "" >>),
       R("build_enhanced_docket_summary", "nature_of_judgement", "truthy",
         << "nature_of_judgement", "_code" >>, << "nature_of_judgement", "" >>),
       R("build_enhanced_docket_summary", "arbitration_at_filing", "truthy",
         << "", "" >>, << "arbitration_at_filing", "" >>),
       R("build_enhanced_docket_summary", "arbitration_at_termination", "truthy",
         << "", "" >>, << "arbitration_at_termination", "" >>),
       R("build_enhanced_docket_summary", "termination_class_action_status", "truthy",
         << "", "" >>, << "termination_class_action_status", "" >>),
       R("build_enhanced_docket_summary", "pro_se", "notnone", << "pro_se", "_code" >>, << "pro_se", "" >>) >>

\* The coded part of the analysis record an analyzer builds from an upstream
\* record all of whose coded fields hold v: each key with what it holds
\* ("raw": the upstream value as it came, "label": the translator's result,
\* "null": None).
coded_record(analyzer, v) ==
    LET rows == {i \in DOMAIN coded_fields : coded_fields[i].analyzer = analyzer}
        keys == {coded_fields[i].raw : i \in rows} \cup {coded_fields[i].display : i \in rows}
    IN [k \in keys \ {<< "", "" >>} |->
            IF \E i \in rows : coded_fields[i].display = k
            THEN LET i == CHOOSE j \in rows : coded_fields[j].display = k
                 IN [is |-> IF Emits(coded_fields[i].test, v) \/ coded_fields[i].test = "always"
                            THEN "label" ELSE "null",
                     of |-> coded_fields[i].field]
            ELSE LET i == CHOOSE j \in rows : coded_fields[j].raw = k
                 IN [is |-> "raw", of |-> coded_fields[i].field]]

\* ------------------------------------------------------ the tool-request parser
\* MCPToolConverter.default_limits: the tools the converter knows (each with
\* the limit 5).
default_limits == ToolNames \cup {"brave_web_search"}

\* What a call of the parser ends in.  A parameter mapping is a set of
\* << key, value >>; the values are "caller" (the value the caller's JSON
\* gave), "5" (the default limit) and the names of what the converter
\* extracted from the text.
Returns(name, type, params) == [kind |-> "return", name |-> name, type |-> type, params |-> params]

\* _add_defaults(tool_name, params) on what json.loads returned: a JSON
\* object (dict), a string, an array, or a number, true, false or null.
\* `'limit' not in params` raises TypeError on a number, a bool and None; on
\* a string and a list it is a containment test, and the assignment
\* params['limit'] = 5 that follows raises TypeError.
AddDefaultsOverwrite(tool_name, body) ==
    Returns(tool_name, "dict",
            {<< k, "caller" >> : k \in body.has \ {"limit"}} \cup {<< "limit", "5" >>})
add_defaults(tool_name, body) ==
    CASE body.json \in {"number", "bool", "null"} -> Raises("TypeError")
      [] body.json = "object" ->
            Returns(tool_name, "dict",
                    {<< k, "caller" >> : k \in body.has}
                    \cup (IF "limit" \notin body.has THEN {<< "limit", "5" >>} ELSE {})
                    \cup (IF tool_name = "brave_web_search" /\ "count" \notin body.has
                          THEN {<< "count", "5" >>} ELSE {}))
      [] OTHER ->
            IF "limit" \notin body.has THEN Raises("TypeError")
            ELSE IF tool_name = "brave_web_search" /\ "count" \notin body.has THEN Raises("TypeError")
            ELSE Returns(tool_name, IF body.json = "string" THEN "str" ELSE "list", {})

\* _convert_natural_language(tool_name, query) with the _convert_* functions
\* it dispatches to; body.has names what the _extract_* helpers find in the
\* text: "id" (a non-zero id), "case", "court", "first", "last", "party",
\* "citation" (volume reporter page), "jurisdiction" (federal or state),
\* "fresh" (recent or latest).
convert_natural_language(tool_name, body) ==
    LET If(feature, key) == IF feature \in body.has THEN {<< key, feature >>} ELSE {}
        limit == {<< "limit", "5" >>}
    IN Returns(tool_name, "dict",
        CASE tool_name \in {"get_opinion", "get_cluster"} ->
                limit \cup (IF "id" \in body.has
                            THEN {<< IF tool_name = "get_opinion" THEN "opinion_id" ELSE "cluster_id", "id" >>}
                            ELSE If("case", "case_name") \cup If("court", "court"))
          [] tool_name = "get_docket" ->
                limit \cup (IF "id" \in body.has THEN {<< "docket_id", "id" >>} ELSE If("case", "case_name"))
          [] tool_name \in {"search_legal_cases", "advanced_legal_search"} ->
                limit \cup {<< "query", "text" >>} \cup If("court", "court")
          [] tool_name = "get_judge" ->
                limit \cup {<< k, "True" >> : k \in {"include_positions", "include_educations",
                                                     "include_political_affiliations", "include_aba_ratings"}}
                \cup (IF "id" \in body.has THEN {<< "person_id", "id" >>}
                      ELSE If("last", "name_last") \cup If("first", "name_first"))
          [] tool_name = "get_political_affiliations" ->
                limit \cup If("id", "person_id") \cup If("party", "political_party")
          [] tool_name \in {"get_aba_ratings", "get_retention_events", "get_sources",
                            "get_educations", "get_positions"} ->
                limit \cup If("id", "person_id")
          [] tool_name = "verify_citations" ->
                limit \cup (IF "citation" \in body.has
                            THEN {<< "volume", "citation" >>, << "reporter", "citation" >>, << "page", "citation" >>}
                            ELSE {<< "text", "text" >>})
          [] tool_name \in {"find_authorities_cited", "find_citing_opinions"} ->
                limit \cup If("id", "opinion_id")
                \cup {<< "include_opinion_details", "True" >>, << "order_by", "-depth" >>}
          [] tool_name = "analyze_citation_network" -> limit \cup If("id", "opinion_id")
          [] tool_name = "get_court" -> limit \cup If("court", "court_id") \cup If("jurisdiction", "jurisdiction")
          [] OTHER -> {<< "query", "text" >>, << "count", "5" >>} \cup If("fresh", "freshness"))

\* parse_tool_request(tool_request) with _convert_to_params: the request is
\* whether it holds a ':', the stripped name before the first ':', and the
\* text after it (body.json is "text" when json.loads raises).  The except
\* clause of _convert_to_params catches JSONDecodeError and ValueError only.
parse_tool_request(x) ==
    IF ~x.colon THEN Raises("ValueError")
    ELSE IF x.name \notin default_limits THEN Raises("ValueError")
    ELSE IF x.body.json = "text" THEN convert_natural_language(x.name, x.body)
    ELSE add_defaults(x.name, x.body)

\* ------------------------------------------------------- the vote statistics
MaxVotes == 15

\* round((num / den) * 100, 1), in tenths, for den > 0: the nearest tenth;
\* when the quotient lies midway between two tenths the floating-point
\* value decides, and either neighbour can come out.  A percentage is the
\* value of kind "tenths".
Round1Truncate(num, den) == {(1000 * num) \div den}
Round1(num, den) ==
    LET lo == (1000 * num) \div den
        r == (1000 * num) % den
    IN IF 2 * r < den THEN {lo} ELSE IF 2 * r > den THEN {lo + 1} ELSE {lo, lo + 1}

\* The vote statistics of analyze_position_thoroughly (vote_analysis, which
\* stays None unless the total is positive) and of
\* analyze_retention_event_thoroughly (voting_data, whose total and margin
\* are set whenever both counts are present).
vote_statistics(analyzer, yes, no) ==
    IF yes.kind = "none" \/ no.kind = "none" \/ (analyzer = "analyze_position_thoroughly" /\ yes.n + no.n <= 0)
    THEN {[kind |-> "votes", total_votes |-> None, margin |-> None, percentage |-> None]}
    ELSE IF yes.n + no.n <= 0
    THEN {[kind |-> "votes", total_votes |-> Number(yes.n + no.n), margin |-> Number(yes.n - no.n),
           percentage |-> None]}
    ELSE {[kind |-> "votes", total_votes |-> Number(yes.n + no.n), margin |-> Number(yes.n - no.n),
           percentage |-> [kind |-> "tenths", s |-> "", n |-> t]] : t \in Round1(yes.n, yes.n + no.n)}

\* ------------------------------------------------- long texts and sources
\* A text field of n characters rendered under a threshold: in full up to
\* the threshold, its first keep characters followed by the marker beyond
\* it; stated is the number of characters the text prints with it, which is
\* the length of the whole field.
PreviewUncut(n, threshold, keep, marker) == [shown |-> n, stated |-> n, marker |-> ""]
Preview(n, threshold, keep, marker) ==
    IF n <= threshold
    THEN [shown |-> n, stated |-> n, marker |-> ""]
    ELSE [shown |-> keep, stated |-> n, marker |-> marker]

\* The text of an opinion of n characters as get_opinion returns it with
\* include_full_text: analyze_opinion_thoroughly stores full_text, or
\* full_text_preview and text_length, and format_opinion_analyses prints
\* them.
opinion_full_text(n) ==
    LET p == Preview(n, 100000, 10000, "[TRUNCATED - Full text continues...]")
    IN [kind |-> "text", shown |-> IF n = 0 THEN 0 ELSE p.shown, stated |-> p.stated, marker |-> p.marker,
        text |-> IF n = 0 THEN << "TEXT INFORMATION:", "Available: No" >>
                 ELSE IF p.marker = "" THEN << "FULL OPINION TEXT (for LLM analysis):", "Length: " >>
                 ELSE << "OPINION TEXT PREVIEW (for LLM analysis):", "Total Length: ", p.marker >>]

\* One source record through analyze_source_thoroughly and
\* format_sources_analyses.  url is "absent" (no key), "null", "empty",
\* "path" (a non-empty string in which urlparse finds no netloc) or "gov" (a
\* URL with a netloc); notes is None (key absent: the default '' applies),
\* Given("null") or Number(length).
format_source(url, notes) ==
    LET n == notes.n
        domain == url = "gov"
        p == Preview(n, 500, 400, "...")
    IN IF notes.kind = "null" THEN Raises("TypeError")              \* len(None)
       ELSE IF url \in {"absent", "null"} THEN Raises("TypeError")  \* None[:100]
       ELSE IF ~domain THEN Raises("AttributeError")                \* None.lower()
       ELSE [kind |-> "text", shown |-> p.shown, stated |-> p.stated, marker |-> p.marker,
             text |-> << "DATA SOURCE: ", "x.gov", "URL: ", "SOURCE DETAILS:", "Full URL: ", "Domain: ",
                         "Has Notes: " >>
                      \o (IF n > 0 THEN << "Notes Length: " >> ELSE << >>)
                      \o (IF n > 0 /\ p.marker = "" THEN << "NOTES:" >> ELSE << >>)
                      \o (IF n > 0 /\ p.marker # ""
                          THEN << "NOTES (PREVIEW):", p.marker, "[Full notes: " >> ELSE << >>)
                      \o << "SOURCE ANALYSIS:", "Type: Government source", "RECORD METADATA:" >>]

\* ------------------------------------------------ the judge-name heuristic
\* Words of a free-text query.
MaxWords == 4

\* _extract_judge_name(query) on the words of the query, each with whether
\* it has the form [A-Z][a-z]+ : the honorifics are removed, then the first
\* two adjacent capitalised words are the first and the last name; without
\* such a pair the first capitalised word is the last name ("" is None).
extract_judge_name(words) ==
    LET clean == SelectSeq(words, LAMBDA w : w.w \notin {"Justice", "Judge", "Chief", "Associate"})
        pairs == {i \in 1..(Len(clean) - 1) : clean[i].cap /\ clean[i + 1].cap}
        caps == {i \in 1..Len(clean) : clean[i].cap}
        Min(S) == CHOOSE i \in S : \A j \in S : i <= j
    IN IF pairs # {}
       THEN [kind |-> "names", first |-> clean[Min(pairs)].w, last |-> clean[Min(pairs) + 1].w]
       ELSE IF caps # {}
       THEN [kind |-> "names", first |-> "", last |-> clean[Min(caps)].w]
       ELSE [kind |-> "names", first |-> "", last |-> ""]

\* The parameters the function of a tool declares: those that reach its query,
\* and the rest of its signature.
tool_signature(t) ==
    CASE t = "verify_citations" -> {"text", "volume", "reporter", "page"}
      [] t = "analyze_citation_network" ->
            {"opinion_id", "include_authorities", "include_citing", "authority_limit", "citing_limit"}
      [] t = "advanced_legal_search" ->
            ParamNames(t) \cup {"query", "search_type", "courts", "date_range", "advanced_filters"}
      [] t = "search_legal_cases" -> ParamNames(t) \cup {"query", "search_type"}
      [] t \in {"find_authorities_cited", "find_citing_opinions"} ->
            ParamNames(t) \cup {"opinion_id", "include_opinion_details"}
      [] t = "get_opinion" ->
            ParamNames(t) \cup {"include_full_text", "include_citations", "analyze_content"}
      [] t = "get_cluster" -> ParamNames(t) \cup {"include_opinions", "include_docket"}
      [] t = "get_docket" -> ParamNames(t) \cup {"include_clusters", "include_entries"}
      [] t = "get_court" -> ParamNames(t) \cup {"include_hierarchy", "include_stats"}
      [] t = "get_judge" ->
            ParamNames(t) \cup {"race", "include_positions", "include_educations",
                                "include_political_affiliations", "include_aba_ratings"}
      [] t = "get_positions" ->
            ParamNames(t) \cup {"include_person_details", "include_court_details",
                                "include_appointer_details", "include_retention_events"}
      [] t = "get_educations" -> ParamNames(t) \cup {"include_person_details", "include_school_details"}
      [] t = "get_retention_events" -> ParamNames(t) \cup {"include_position_details"}
      [] OTHER -> ParamNames(t) \cup {"include_person_details"}

\* ------------------------------------------- calls of the pure functions
\* The functions that are called with a value and return one, with the
\* values each is given and the results a call can end in.
FnInputs(f) ==
    CASE f = "coded_record" ->
            {[kind |-> "record", analyzer |-> coded_fields[i].analyzer, v |-> v] :
                i \in DOMAIN coded_fields, v \in {None, Given("v"), Given("f"), Number(0), Number(1)}}
      [] f = "parse_tool_request" ->
            \* the texts after the ':' : JSON values and free text
            LET bodies ==
                    {[json |-> "object", has |-> k] : k \in SUBSET {"opinion_id", "limit", "count"}}
                    \cup {[json |-> j, has |-> k] :
                            j \in {"string", "array"}, k \in {{}, {"limit"}, {"limit", "count"}}}
                    \cup {[json |-> j, has |-> {}] : j \in {"number", "bool", "null"}}
                    \cup {[json |-> "text", has |-> k] :
                            k \in {{}, {"id"}, {"case", "court"}, {"id", "case"}, {"first", "last"},
                                   {"last", "party"}, {"citation"}, {"court", "jurisdiction"}, {"fresh"}}}
            IN {[kind |-> "request", colon |-> c, name |-> n, body |-> b] :
                    c \in BOOLEAN, n \in default_limits \cup {"no_such_tool"}, b \in bodies}
      [] f = "vote_statistics" ->
            LET counts == {None} \cup {Number(i) : i \in 0..MaxVotes}
            IN {[kind |-> "votes", analyzer |-> a, yes |-> y, no |-> n] :
                    a \in {"analyze_position_thoroughly", "analyze_retention_event_thoroughly"},
                    y \in counts \cup {Number(60)}, n \in counts \cup {Number(40)}}
      [] f = "extract_judge_name" ->
            LET vocabulary == {[w |-> "Justice", cap |-> TRUE], [w |-> "Ruth", cap |-> TRUE],
                               [w |-> "Bader", cap |-> TRUE], [w |-> "Ginsburg", cap |-> TRUE],
                               [w |-> "and", cap |-> FALSE]}
            IN {[kind |-> "query", words |-> ws] :
                    ws \in UNION {[1..k -> vocabulary] : k \in 0..MaxWords}}
      [] f = "format_opinion_type" -> StringInputs
      [] f = "opinion_full_text" ->
            {[kind |-> "text", n |-> n] : n \in {0, 1, 9999, 10000, 10001, 99999, 100000, 100001, 250000}}
      [] f = "format_source" ->
            {[kind |-> "source", url |-> u, notes |-> n] :
                u \in {"absent", "null", "empty", "path", "gov"},
                n \in {None, Given("null")} \cup {Number(i) : i \in {0, 1, 399, 400, 401, 499, 500, 501, 900}}}

FnResults(f, x) ==
    CASE f = "coded_record" -> {[kind |-> "analysis", map |-> coded_record(x.analyzer, x.v)]}
      [] f = "parse_tool_request" -> {parse_tool_request(x)}
      [] f = "vote_statistics" -> vote_statistics(x.analyzer, x.yes, x.no)
      [] f = "opinion_full_text" -> {opinion_full_text(x.n)}
      [] f = "extract_judge_name" -> {extract_judge_name(x.words)}
      [] f = "format_opinion_type" ->
            \* analyze_opinion_thoroughly keeps the code under "type" and stores its
            \* translation under "type_display"; format_opinion_analyses prints
            \* the header of the record with the line "Type: {type_display}".
            LET display == get_opinion_type_display(x)
            IN {IF display.kind = "raise" THEN display
                ELSE [kind |-> "rendered",
                      analysis |-> [type |-> x, type_display |-> display],
                      text |-> << "OPINION ", "Opinion ID: ", "Type: " >>
                               \o (IF display.kind = "str" THEN display.text ELSE << Repr(x) >>)
                               \o << "Author: ", "URL: " >>]}
      [] f = "format_source" -> {format_source(x.url, x.notes)}

FnReturn ==
    /\ m.op = "called"
    /\ \E o \in FnResults(m.fn, m.input) :
          m' = [op |-> "returned", fn |-> m.fn, input |-> m.input, out |-> o]
    /\ UNCHANGED << tool, cur, arg, pc, inflight, phase, nrec, step, have, analysis,
                    analyses, lost, exc, pstatus, queue, parts, result, q >>

NextFn ==
    \/ \E f \in {"coded_record", "parse_tool_request", "vote_statistics", "opinion_full_text",
                 "format_source", "extract_judge_name", "format_opinion_type"} :
          \E x \in FnInputs(f) : MCall(f, x)
    \/ FnReturn
    \/ MReset

SpecFn == Init /\ [][NextFn]_vars

\* ----------------------------------------------- calls in flight together
\* Tool calls the server runs at the same time, and the connections the one
\* httpx.AsyncClient of the lifespan context gives out at a time (the code
\* sets max_connections=100).
MaxCalls == 3
MaxConnections == 2

\* The server is up: courtlistener_lifespan has created the client and
\* yielded the context; no call has arrived.  A call is where it stands, its
\* tool, what its own request ended in ("pool": no connection within the
\* pool timeout) and the text it returned.
COpen ==
    /\ pc = "idle" /\ m = MIdle
    /\ m' = [op |-> "serving", pool |-> {},
             calls |-> [i \in 1..MaxCalls |-> [pc |-> "idle", tool |-> "", outcome |-> "", text |-> << >>]]]
    /\ UNCHANGED << tool, cur, arg, pc, inflight, phase, nrec, step, have, analysis,
                    analyses, lost, exc, pstatus, queue, parts, result, q >>

\* A client calls tool t: the function starts with its own locals.
CStart(i, t) ==
    /\ m.op = "serving" /\ m.calls[i].pc = "idle"
    /\ m' = [m EXCEPT !.calls[i] = [pc |-> "ready", tool |-> t, outcome |-> "", text |-> << >>]]
    /\ UNCHANGED << tool, cur, arg, pc, inflight, phase, nrec, step, have, analysis,
                    analyses, lost, exc, pstatus, queue, parts, result, q >>

\* await courtlistener_ctx.http_client.get(...): the request goes out on a
\* connection of the pool; when every connection is taken the request waits
\* and, after the pool timeout, raises httpx.PoolTimeout, which the tool's
\* except Exception turns into its error text.
CSend(i) ==
    /\ m.op = "serving" /\ m.calls[i].pc = "ready"
    /\ IF Cardinality(m.pool) < MaxConnections
       THEN m' = [m EXCEPT !.pool = @ \cup {i}, !.calls[i].pc = "waiting"]
       ELSE m' = [m EXCEPT !.calls[i] =
                     [pc |-> "done", tool |-> @.tool, outcome |-> "pool",
                      text |-> HandlerText(D(@.tool), [class |-> "PoolTimeout", code |-> "", origin |-> "primary"],
                                           TRUE)]]
    /\ UNCHANGED << tool, cur, arg, pc, inflight, phase, nrec, step, have, analysis,
                    analyses, lost, exc, pstatus, queue, parts, result, q >>

\* The response on a connection resumes the coroutine that awaits it.
AnyResponse(c, i) == TRUE
OwnResponse(c, i) == c = i

\* The upstream answers the request on connection c with o; call i resumes
\* with it, returns its text (the tool's "no records" text on a 200, its
\* handler's text otherwise) and the connection goes back to the pool.
CRecv(c, i, o) ==
    /\ m.op = "serving" /\ c \in m.pool
    /\ m.calls[i].pc = "waiting" /\ OwnResponse(c, i)
    /\ m' = [m EXCEPT
               !.pool = @ \ {c},
               !.calls = [j \in 1..MaxCalls |->
                   IF j = i
                   THEN [pc |-> "done", tool |-> @[i].tool,
                         outcome |-> IF c = i THEN o ELSE @[i].outcome,
                         text |-> IF o = "200" THEN D(@[i].tool).empty
                                  ELSE HandlerText(D(@[i].tool),
                                                   IF IsException(o)
                                                   THEN [class |-> ExceptionClass(o), code |-> "",
                                                         origin |-> "primary"]
                                                   ELSE [class |-> "HTTPStatusError", code |-> o,
                                                         origin |-> "primary"],
                                                   TRUE)]
                   ELSE IF j = c THEN [@[j] EXCEPT !.outcome = o]
                   ELSE @[j]]]
    /\ UNCHANGED << tool, cur, arg, pc, inflight, phase, nrec, step, have, analysis,
                    analyses, lost, exc, pstatus, queue, parts, result, q >>

NextConc ==
    \/ COpen
    \/ \E i \in 1..MaxCalls : \E t \in {"get_opinion", "verify_citations"} : CStart(i, t)
    \/ \E i \in 1..MaxCalls : CSend(i)
    \/ \E c, i \in 1..MaxCalls : \E o \in {"200", "404", "429", "timeout"} : CRecv(c, i, o)

SpecConc == Init /\ [][NextConc]_vars

\* ------------------------------------------------- the multi-server client
\* The retrieval proxy of courtlistener_client.py.  m is the global
\* mcp_client: MIdle while it is None, and after MultiMCPClient() a record
\* with the object's is_connected and sessions, what became of each server's
\* _connect_server (tried), whether close() has run (closed: "no", "ok", or
\* "failed" when exit_stack.aclose() raised), and the last request served.
MaxQueries == 2

\* A query holds a tool request: a well-formed one for a tool of either
\* server, one with an unknown tool name ("no_such_tool"), or a text without
\* ':' ("nocolon").  session.call_tool ends in a result whose first content
\* has a text ("text"), one whose first content has none ("other"), an empty
\* content ("empty"), or an exception ("raise").

\* mcp_client = MultiMCPClient()
MultiMCPClient ==
    /\ m.op = "idle"
    /\ m' = [op |-> "client",
             is_connected |-> [s \in {"legal", "web"} |-> FALSE],
             sessions |-> {},
             tried |-> [s \in {"legal", "web"} |-> "never"],
             closed |-> "no",
             last |-> [kind |-> "none"]]
    /\ UNCHANGED << tool, cur, arg, pc, inflight, phase, nrec, step, have, analysis,
                    analyses, lost, exc, pstatus, queue, parts, result, q >>

\* connect() goes through the servers in order; a server without its token
\* in the environment is skipped ("skipped").  _connect_server(s): the
\* transport, the session or initialize() raises ("fail_start"), or the
\* session is stored and marked connected and then list_tools() returns
\* ("ok") or raises ("fail_list"); the except marks the server not connected
\* and leaves sessions as it is.
connect_server(s, o) ==
    /\ m.op = "client" /\ m.closed = "no"
    /\ m.tried[s] = "never"
    /\ s = "web" => m.tried["legal"] # "never"
    /\ m' = [m EXCEPT !.tried[s] = o,
                      !.sessions = IF o \in {"ok", "fail_list"} THEN @ \cup {s} ELSE @,
                      !.is_connected[s] = (o = "ok"),
                      !.last = [kind |-> "none"]]
    /\ UNCHANGED << tool, cur, arg, pc, inflight, phase, nrec, step, have, analysis,
                    analyses, lost, exc, pstatus, queue, parts, result, q >>

\* execute_tool_request(tool_request) on the client c, where a is what
\* session.call_tool ends in should it be called: the one document returned,
\* with the server chosen by _get_server_for_tool and whether a session was
\* called.  Every exception, that of parse_tool_request included, ends in the
\* except Exception of the function.
execute_tool_request(c, r, a) ==
    LET parsed == parse_tool_request([kind |-> "request", colon |-> r # "nocolon", name |-> r,
                                      body |-> [json |-> "text", has |-> {}]]).kind = "return"
        s == IF r = "brave_web_search" THEN "web" ELSE "legal"
        available == parsed /\ c.is_connected[s]
        forwarded == available /\ s \in c.sessions
    IN [request |-> r, parsed |-> parsed, server |-> s, forwarded |-> forwarded,
        contents |-> IF ~parsed THEN "Tool execution error: "
                     ELSE IF ~available THEN " MCP server not available for tool: "
                     ELSE IF ~forwarded THEN "Tool execution error: "
                     ELSE CASE a = "text" -> "content.text"
                            [] a = "other" -> "str(content)"
                            [] a = "empty" -> "No results found for tool: "
                            [] OTHER -> "Tool execution error: "]

\* POST /retrieve with the queries, topk (None for a JSON null) and
\* return_scores.  Each query is executed in turn; its documents are appended
\* one by one and the loop over them breaks once len(query_results) >= topk,
\* a test made after the append.  With topk None the test raises TypeError and
\* the except returns one "Retrieval error" document per query.  The handler
\* leaves the client as it is, so one request is followed until the next
\* connect or close.
retrieve_endpoint(queries, topk, return_scores, a) ==
    /\ m.op \in {"idle", "client"}
    /\ "last" \in DOMAIN m => m.last.kind = "none"
    /\ m.op = "client" /\ m.closed # "no" => a = "raise"
    /\ LET Doc(contents, j) ==
               IF return_scores
               THEN [contents |-> contents, score |-> 950 - 50 * j]
               ELSE [contents |-> contents]
           runs == [i \in DOMAIN queries |-> execute_tool_request(m, queries[i], a)]
           \* the documents of one query: docs[1..j], j the first index with
           \* j >= topk, or all of docs
           Kept(docs) ==
               LET stop == IF topk.n < 1 THEN 1 ELSE topk.n
                   n == IF Len(docs) < stop THEN Len(docs) ELSE stop
               IN [j \in 1..n |-> Doc(docs[j], j - 1)]
           results ==
               IF m.op = "idle"
               THEN [i \in DOMAIN queries |-> << [contents |-> "MCP service unavailable"] >>]
               ELSE IF topk = None /\ queries # << >>
               THEN [i \in DOMAIN queries |-> << [contents |-> "Retrieval error: "] >>]
               ELSE [i \in DOMAIN queries |-> Kept(<< runs[i].contents >>)]
           served == [kind |-> "retrieve", queries |-> queries, topk |-> topk,
                      runs |-> IF m.op = "idle" THEN << >>
                               ELSE IF topk = None /\ queries # << >> THEN << runs[1] >>
                               ELSE runs,
                      result |-> results]
       IN m' = IF m.op = "idle" THEN [op |-> "idle", last |-> served]
               ELSE [m EXCEPT !.last = served]
    /\ UNCHANGED << tool, cur, arg, pc, inflight, phase, nrec, step, have, analysis,
                    analyses, lost, exc, pstatus, queue, parts, result, q >>

\* close(): exit_stack.aclose(), then sessions.clear() and every server marked
\* not connected; when aclose() raises, the except logs and the two
\* statements after it are not reached.
close(ok) ==
    /\ m.op = "client" /\ m.closed = "no"
    /\ m' = IF ok
            THEN [m EXCEPT !.sessions = {},
                           !.is_connected = [s \in {"legal", "web"} |-> FALSE],
                           !.closed = "ok", !.last = [kind |-> "none"]]
            ELSE [m EXCEPT !.closed = "failed", !.last = [kind |-> "none"]]
    /\ UNCHANGED << tool, cur, arg, pc, inflight, phase, nrec, step, have, analysis,
                    analyses, lost, exc, pstatus, queue, parts, result, q >>

NextClient ==
    \/ MultiMCPClient
    \/ \E s \in {"legal", "web"} :
          \E o \in {"skipped", "ok", "fail_start", "fail_list"} : connect_server(s, o)
    \/ \E n \in 0..MaxQueries : \E queries \in [1..n -> {"get_opinion", "brave_web_search", "no_such_tool", "nocolon"}] :
          \E topk \in {None, Number(-1), Number(0), Number(1), Number(3)} :
             \E return_scores \in BOOLEAN : \E a \in {"text", "other", "empty", "raise"} :
                retrieve_endpoint(queries, topk, return_scores, a)
    \/ \E ok \in BOOLEAN : close(ok)

SpecClient == Init /\ [][NextClient]_vars

\* ------------------------------------------------------------- the claims
\* The records the function has in hand while it analyses one record: the
\* record itself and those the enrichment fetches have brought.
Fetched ==
    (IF phase = "records" THEN {D(cur).endpoint} ELSE {})
    \cup {CurPlan[i].kind : i \in have \ {0}}

FailedStatuses == {"404", "401", "429", "500"}

\* C1: whatever fails in a call (input turned down or of the wrong type, the
\* primary request answered 404/401/429/500, timing out or carrying an
\* undecodable body, an exception in the analysis or in the formatter), the
\* call ends by returning a text; no exception leaves the tool function.
C1_EveryFailureReturnsText ==
    pc = "done" =>
        /\ result.kind \in {"analysis", "empty", "invalid", "error"}
        /\ result.text # << >>

C1_Witness ==
    /\ pc = "done" /\ result.kind = "error"
    /\ result.origin = "format"
    /\ tool = "get_opinion"

\* C2: an enrichment fetch that fails (network error, status other than 200,
\* undecodable body) is skipped: no exception of an enrichment fetch reaches
\* the handlers of the tool, and a call in whose last record such a fetch
\* failed returns the analysis, showing the primary record, unless the
\* analysis code or the formatter raised afterwards.
C2_EnrichmentFailureSkipped ==
    /\ exc.origin # "enrichment"
    /\ (pc = "done" /\ cur = tool /\ lost # {}) =>
          \/ /\ result.kind = "analysis"
             /\ Contains(result.text, D(tool).layout[1].label)
          \/ /\ result.kind = "error"
             /\ result.origin \in {"analysis", "format"}

C2_Witness ==
    /\ pc = "done" /\ tool = "get_cluster" /\ result.kind = "analysis"
    /\ \E k \in {"opinions", "dockets", "courts"} : << k, "body" >> \in lost

\* C3: a call never has more than one upstream request in flight: each
\* follow-up request is sent only when the one before it has been answered.
C3_OneRequestInFlight == Len(inflight) <= 1

C3_Witness ==
    /\ Len(inflight) = 1 /\ inflight[1].step > 1
    /\ tool = "get_cluster"

\* C4: in the tools of the opinion, cluster, docket, court chain, a docket is
\* requested only when the cluster that names it is in hand, and a court only
\* when the docket that names it is in hand.
ChainTools == {"get_opinion", "get_cluster", "get_docket"}

C4_NestingOrder ==
    \A i \in DOMAIN inflight :
        (cur \in ChainTools /\ inflight[i].step > 0) =>
            /\ inflight[i].endpoint = "dockets" => "clusters" \in Fetched
            /\ inflight[i].endpoint = "courts" => "dockets" \in Fetched

C4_Witness ==
    /\ tool = "get_cluster" /\ inflight # << >>
    /\ inflight[1].endpoint = "courts" /\ inflight[1].step > 0
    /\ lost # {}

\* The filter rows behind the params of a call (advanced_legal_search sends
\* the request of search_legal_cases).
SentRows ==
    IF q.tool = "advanced_legal_search"
    THEN Filters("search_legal_cases")
    ELSE Filters(q.tool)

Supplied(name) == name \in DOMAIN q.args /\ q.args[name].kind # "none"

C6_PageSizeClamped ==
    (q.op = "sent" /\ "page_size" \in DOMAIN q.params) =>
        LET t == IF q.tool = "advanced_legal_search" THEN "search_legal_cases" ELSE q.tool
            most == D(t).max
            limit == IF "limit" \in DOMAIN q.args THEN q.args["limit"].n ELSE D(q.tool).limit
            size == q.params["page_size"].n
        IN /\ most \in {20, 50, 100, 200}
           /\ limit < 1 => size = 1
           /\ limit > most => size = most
           /\ (limit >= 1 /\ limit <= most) => size = limit

C6_Witness ==
    /\ q.op = "sent" /\ q.tool = "get_retention_events"
    /\ "limit" \in DOMAIN q.args /\ q.args["limit"].n = 9999
    /\ q.params["page_size"].n = 100

\* The ordering values a tool documents: a field of valid_orders with at
\* most one "-" before it; for the search tools the values of the docstring.
AllowList(t) ==
    IF t \in SearchTools
    THEN {Order(0, f) : f \in {"relevance", "dateFiled desc", "citeCount desc", "random"}}
    ELSE {Order(d, f) : d \in {0, 1}, f \in D(t).valid_orders}

\* C7: whatever the caller gives as order_by, the ordering sent upstream is
\* a value of the tool's allow-list.
C7_OrderingInAllowList ==
    (q.op = "sent" /\ TakesOrderBy(q.tool)) =>
        \A k \in {"ordering", "order_by"} \cap DOMAIN q.params :
            q.params[k] \in AllowList(q.tool)

\* C8: a translator returns a string for every input, None, empty and
\* unrecognized ones included: it neither returns None nor raises.
C8_TranslatorReturnsString ==
    m.op = "returned" => m.out.kind = "str"

\* C9 as stated: whatever tool made the request, a primary request answered
\* 404 puts "not found" in the returned text, 401 "Authentication failed",
\* 429 "Rate limit", and another failing status "HTTP <code>".
C9_MarkerForEveryTool ==
    (pc = "done" /\ pstatus.outcome \in FailedStatuses) =>
        CASE pstatus.outcome = "404" -> Contains(result.text, "not found")
          [] pstatus.outcome = "401" -> Contains(result.text, "Authentication failed")
          [] pstatus.outcome = "429" -> Contains(result.text, "Rate limit")
          [] OTHER -> ContainsPair(result.text, "HTTP ", pstatus.outcome)

\* C9 amended: the marker depends on the tool that made the request.  401
\* gives "Authentication failed" and 500 gives "HTTP 500" everywhere; 404
\* gives "not found" except in search_legal_cases and verify_citations, which
\* give "HTTP 404"; 429 gives "Rate limit" in verify_citations only and
\* "HTTP 429" in every other tool.
C9_MarkerPerTool ==
    (pc = "done" /\ pstatus.outcome \in FailedStatuses) =>
        CASE pstatus.outcome = "401" -> Contains(result.text, "Authentication failed")
          [] pstatus.outcome = "404" ->
                IF pstatus.tool \in {"search_legal_cases", "verify_citations"}
                THEN ContainsPair(result.text, "HTTP ", "404")
                ELSE Contains(result.text, "not found")
          [] pstatus.outcome = "429" ->
                IF pstatus.tool = "verify_citations"
                THEN Contains(result.text, "Rate limit")
                ELSE ContainsPair(result.text, "HTTP ", "429")
          [] OTHER -> ContainsPair(result.text, "HTTP ", pstatus.outcome)

C9_Witness ==
    /\ pc = "done" /\ tool = "advanced_legal_search"
    /\ pstatus.outcome = "404" /\ ContainsPair(result.text, "HTTP ", "404")

\* C10: when the court lookup of a docket fetched by id fails, the analysis
\* returned has no court line.
C10_CourtSectionAbsent ==
    (/\ pc = "done" /\ tool = "get_docket" /\ arg = "id"
     /\ result.kind = "analysis"
     /\ \E c \in {"status", "network", "body"} : << "courts", c >> \in lost)
    => ~Contains(result.text, "Court: ")

\* C11: in every analysis record, every coded field keeps its raw code under
\* the field's own key and has its translation under the sibling key
\* <field>_display.
C11_RawKeptDisplaySibling ==
    (m.op = "returned" /\ m.fn = "coded_record") =>
        \A i \in DOMAIN coded_fields :
            coded_fields[i].analyzer = m.input.analyzer =>
                LET f == coded_fields[i].field
                IN /\ << f, "" >> \in DOMAIN m.out.map
                   /\ m.out.map[<< f, "" >>] = [is |-> "raw", of |-> f]
                   /\ << f, "_display" >> \in DOMAIN m.out.map
                   /\ m.out.map[<< f, "_display" >>].is \in {"label", "null"}
                   /\ m.out.map[<< f, "_display" >>].of = f

\* C12: parse_tool_request raises (a ValueError that describes the fault)
\* exactly when the request has no ':' or the name before the first ':' is
\* not a known tool; for every other request, whatever the text after the
\* ':', it returns a parameter mapping and does not raise.
C12_RaisesOnlyOnFormatOrName ==
    (m.op = "returned" /\ m.fn = "parse_tool_request") =>
        IF ~m.input.colon \/ m.input.name \notin default_limits
        THEN m.out = Raises("ValueError")
        ELSE m.out.kind = "return" /\ m.out.type = "dict"

RECURSIVE SumOf(_)
SumOf(S) == IF S = {} THEN 0 ELSE LET b == CHOOSE b \in S : TRUE IN b + SumOf(S \ {b})

\* C14: given a combined value that is not in its table, the source
\* translator returns the labels of the known single-bit values (1, 2, 4, 8,
\* 16, 32, 64) that the value is made of, in the order of the bits and joined
\* with " and "; it returns the numeric fallback label only when none of
\* those bits is set.
C14_UnknownCombinationDecomposed ==
    (/\ m.op = "returned" /\ m.fn = "get_enhanced_source_display" /\ m.input.kind = "int"
     /\ m.input.n \notin {0, 1, 2, 3, 4, 5, 6, 7, 8, 9, 10, 16, 17, 32, 64}) =>
        LET known == {1, 2, 4, 8, 16, 32, 64}
            label == [b \in known |->
                        CASE b = 1 -> "RECAP" [] b = 2 -> "Scraper" [] b = 4 -> "Columbia" [] b = 8 -> "IDB"
                          [] b = 16 -> "Harvard" [] b = 32 -> "Direct court input"
                          [] OTHER -> "2020 anonymous database"]
            bits == CHOOSE S \in SUBSET known : SumOf(S) = m.input.n % 128
            rank(b) == Cardinality({c \in bits : c <= b})
        IN /\ m.out.kind = "str"
           /\ IF bits = {}
              THEN m.out.text = << "Unknown source combination (", ToString(m.input.n), ")" >>
              ELSE /\ Len(m.out.text) = 2 * Cardinality(bits) - 1
                   /\ \A b \in bits : m.out.text[2 * rank(b) - 1] = label[b]
                   /\ \A i \in 1..(Cardinality(bits) - 1) : m.out.text[2 * i] = " and "

\* An unlisted combination of three bits (2 + 16 + 64) has been translated.
C14_Witness ==
    /\ m.op = "returned" /\ m.fn = "get_enhanced_source_display"
    /\ m.input.kind = "int" /\ m.input.n = 82
    /\ m.out.text = << "Scraper", " and ", "Harvard", " and ", "2020 anonymous database" >>

\* C15: for yes/no vote counts the reported total is yes + no and the margin
\* yes - no; the percentage is computed exactly when both counts are present
\* and the total is positive, and is then 100 * yes / total rounded to one
\* decimal (a nearest tenth); 60/40 gives 100, 20 and 60.0; 0/0 gives no
\* percentage and no fault.
C15_VoteStatistics ==
    (m.op = "returned" /\ m.fn = "vote_statistics") =>
        LET yes == m.input.yes
            no == m.input.no
            both == yes.kind = "int" /\ no.kind = "int"
            Dist(a, b) == IF a < b THEN b - a ELSE a - b
        IN /\ m.out.kind = "votes"
           /\ m.out.total_votes # None => (both /\ m.out.total_votes = Number(yes.n + no.n))
           /\ m.out.margin # None => (both /\ m.out.margin = Number(yes.n - no.n))
           /\ m.out.percentage # None <=> (both /\ yes.n + no.n > 0)
           /\ m.out.percentage # None =>
                /\ m.out.total_votes # None /\ m.out.margin # None
                /\ m.out.percentage.kind = "tenths"
                /\ 2 * Dist(m.out.percentage.n * (yes.n + no.n), 1000 * yes.n) <= yes.n + no.n
           /\ (both /\ yes.n = 60 /\ no.n = 40) =>
                /\ m.out.total_votes = Number(100) /\ m.out.margin = Number(20)
                /\ m.out.percentage.n = 600

\* A percentage that needed rounding has been computed (2 of 3 votes: 66.7).
C15_Witness ==
    /\ m.op = "returned" /\ m.fn = "vote_statistics"
    /\ m.input.yes = Number(2) /\ m.input.no = Number(1)
    /\ m.out.percentage.n = 667 /\ m.out.total_votes = Number(3)

\* C16: an exception that is not an HTTP status error, raised while the
\* parameters are built, the records analysed or the text formatted, is
\* caught by the tool function and returned as an error text that includes
\* the class name of the exception.
C16_ErrorTextNamesClass ==
    (pc = "done" /\ result.kind = "error" /\ result.origin \in {"build", "analysis", "format"})
    => \E c \in ExceptionClasses : Contains(result.text, c)

\* C17: formatting a source record is total: whichever of its optional
\* fields (url, notes) is absent, null or empty, the formatter returns text
\* without raising, and the text has no URL line, no domain in its header
\* and no notes section for a field that is missing.
C17_FormattingTotal ==
    (m.op = "returned" /\ m.fn = "format_source") =>
        /\ m.out.kind = "text"
        /\ m.input.url \in {"absent", "null", "empty"} => ~Contains(m.out.text, "Full URL: ")
        /\ (m.input.notes.kind # "int" \/ m.input.notes.n = 0) =>
              ~Contains(m.out.text, "NOTES:") /\ ~Contains(m.out.text, "NOTES (PREVIEW):")

C20_CallsIndependent ==
    m.op = "serving" =>
        /\ \A i \in 1..MaxCalls :
              m.calls[i].pc = "done" =>
                 LET t == m.calls[i].tool
                     o == m.calls[i].outcome
                     generic == << D(t).eany, "str(e)" >>
                                \o (IF D(t).eclass
                                    THEN << "Details: ",
                                            CASE o = "pool" -> "PoolTimeout"
                                              [] o = "timeout" -> "ReadTimeout"
                                              [] OTHER -> "HTTPStatusError" >>
                                    ELSE << >>)
                                \o D(t).eend
                 IN m.calls[i].text =
                        CASE o = "200" -> D(t).empty
                          [] o \in {"pool", "timeout"} -> generic
                          [] D(t).ehttp = "" -> generic
                          [] o = "404" /\ D(t).e404 # << >> -> D(t).e404
                          [] o = "429" /\ D(t).e429 # << >> -> D(t).e429
                          [] OTHER -> << D(t).ehttp, "HTTP ", o >> \o D(t).etail
        /\ m.pool \subseteq {i \in 1..MaxCalls : m.calls[i].pc = "waiting"}
        /\ pc = "idle" /\ result = NoResult /\ pstatus = NoStatus /\ inflight = << >>

\* Two calls were in flight together: the one has returned the rate-limit
\* text of verify_citations while the other still awaits its response.
C20_Witness ==
    /\ m.op = "serving"
    /\ m.calls[1].pc = "done" /\ m.calls[1].tool = "verify_citations" /\ m.calls[1].outcome = "429"
    /\ m.calls[2].pc = "waiting" /\ m.calls[2].tool = "get_opinion"

C22_RuthGinsburg ==
    (/\ m.op = "returned" /\ m.fn = "extract_judge_name"
     /\ m.input.words = << [w |-> "Justice", cap |-> TRUE], [w |-> "Ruth", cap |-> TRUE],
                           [w |-> "Bader", cap |-> TRUE], [w |-> "Ginsburg", cap |-> TRUE] >>) =>
        /\ m.out.first \in {"", "Ruth"}
        /\ m.out.last \in {"", "Ginsburg"}
        /\ m.out.first # "" \/ m.out.last # ""

C24_TurnedDown ==
    LET x == CitationArgs(arg)
        triple == x.volume /\ x.reporter /\ x.page
        some == x.volume \/ x.reporter \/ x.page
    IN (/\ tool = "verify_citations" /\ pc # "idle"
        /\ \/ x.text = 0 /\ ~triple
           \/ x.text > 0 /\ some
           \/ x.text > 64000) =>
          /\ inflight = << >> /\ pstatus = NoStatus /\ pc \in {"build", "done"}
          /\ pc = "done" =>
                /\ result.kind = "invalid" /\ Len(result.text) = 1
                /\ result.text[1] \in
                      {"Error: Must provide either 'text' to parse OR volume/reporter/page for specific lookup.",
                       "Error: Use either 'text' parameter OR volume/reporter/page parameters, not both.",
                       "Error: Text exceeds 64,000 character limit."}

\* verify_citations has turned down an incomplete triple.
C24_Witness ==
    /\ tool = "verify_citations" /\ arg = "partial" /\ pc = "done"
    /\ result.kind = "invalid" /\ inflight = << >>

\* C25: when the source opinion cannot be fetched (the upstream answers 404
\* for it), analyze_citation_network returns "Opinion <id> not found." and
\* starts no network analysis for it.
C25_SourceNotFound ==
    (/\ tool = "analyze_citation_network" /\ cur = tool
     /\ phase = "prelude" /\ 1 \notin have
     /\ pc \in {"parts", "done"}) =>
        /\ pc = "done"
        /\ result.text = << "Opinion ", "opinion_id", " not found." >>
        /\ parts = << >>

\* C26: in a list query, every filter argument the caller supplied with a
\* value that is not None, a falsy one such as 0 included, has its key in the
\* params sent.
C26_SuppliedFilterSent ==
    (/\ q.op = "sent"
     /\ D(q.tool).idarg # "" => ~Supplied(D(q.tool).idarg)) =>
        \A i \in DOMAIN SentRows :
            Supplied(SentRows[i].arg) => SentRows[i].key \in DOMAIN q.params

\* C27: a call that supplies a record ID, 0 included, looks up that one
\* record (the request carries no list parameters); it never sends the list
\* query.
C27_IdMeansSingleLookup ==
    (/\ q.op = "sent" /\ D(q.tool).idarg # ""
     /\ Supplied(D(q.tool).idarg)) =>
        /\ q.params = Empty
        /\ "page_size" \notin DOMAIN q.params

\* C30: every parameter name in the mapping the natural-language converter
\* returns for a tool is a parameter the function of that tool declares.
C30_ConvertedNamesDeclared ==
    (/\ m.op = "returned" /\ m.fn = "parse_tool_request"
     /\ m.input.body.json = "text" /\ m.input.name \in ToolNames
     /\ m.out.kind = "return") =>
        \A p \in m.out.params : p[1] \in tool_signature(m.input.name)

\* C28: a well-formed tool request reaches a session only while its server
\* is marked connected and has a session; when the server was never
\* connected with success, or close() has run, the request gets the
\* "not available" message and no session is called.
C28_ForwardedOnlyWhileConnected ==
    (m.op = "client" /\ m.last.kind = "retrieve") =>
        \A i \in DOMAIN m.last.runs :
            LET run == m.last.runs[i]
            IN run.parsed =>
                 /\ run.forwarded =>
                       m.is_connected[run.server] /\ run.server \in m.sessions
                 /\ (m.tried[run.server] # "ok" \/ m.closed # "no") =>
                       /\ ~run.forwarded
                       /\ run.contents = " MCP server not available for tool: "

\* C29: POST /retrieve returns one result list per query, in the order of
\* the queries, and no list holds more than topk documents, topk = 0
\* included.
C29_OneListPerQueryAtMostTopk ==
    (m.op \in {"idle", "client"} /\ "last" \in DOMAIN m /\ m.last.kind = "retrieve") =>
        /\ Len(m.last.result) = Len(m.last.queries)
        /\ \A i \in DOMAIN m.last.runs :
              /\ m.last.runs[i].request = m.last.queries[i]
              /\ m.last.topk # None =>
                    \A j \in DOMAIN m.last.result[i] :
                        m.last.result[i][j].contents = m.last.runs[i].contents
        /\ m.last.topk # None =>
              \A i \in DOMAIN m.last.result : Len(m.last.result[i]) <= m.last.topk.n

====
